---- MODULE Spec2Model ----
(***************************************************************************)
(* PrismHR MCP server: the session authenticator (authenticate_prismhr)    *)
(* and the endpoint relays built on it (get_employee_list, get_employee),  *)
(* as they are written in src/server/prismhr_mcp_server.py and             *)
(* src/server/small_prismhr_mcp_server.py.                                 *)
(*                                                                         *)
(* An invocation is a Python call frame: it reads the environment, calls   *)
(* the authenticator (one blocking POST), then issues its own GET and      *)
(* returns the parsed body or an {"error": ...} dictionary.  The upstream  *)
(* server is the environment of the model: each blocking urlopen() is      *)
(* answered by a response drawn from a bounded set.                        *)
(***************************************************************************)
EXTENDS Integers, Sequences, FiniteSets, TLC

(***************************************************************************)
(* Bounds of the model.                                                    *)
(***************************************************************************)
\* number of call frames the hosting framework may have open
NumProcs == 2
\* number of invocations with credentials that a run may start
MaxCalls == 2

Procs == 1..NumProcs

(***************************************************************************)
(* State.                                                                  *)
(***************************************************************************)
VARIABLES
  env,          \* the process environment
  pc,           \* per frame: "idle", "auth" (blocked in the authentication
                \* urlopen), "endpoint" (blocked in the endpoint urlopen), "done"
  tool,         \* per frame: the tool that was called
  passed,       \* per frame: the arguments as the caller passed them
  args,         \* per frame: the parameters the arguments were bound to
  locals,       \* per frame: username, password, peo_id, base_url
  session_id,   \* per frame: the local session_id
  result,       \* per frame: the value the call returns
  how,          \* per frame: how the call ended
  reqs,         \* per frame: the HTTP requests it has issued, in order
  authResp,     \* per frame: what its authentication urlopen ended in
  epResp,       \* per frame: what its endpoint urlopen ended in
  calls,        \* invocations started with credentials present
  authPosts,    \* authentication POSTs issued
  authOut       \* per frame: how its authenticate_prismhr call ended

vars == <<env, pc, tool, passed, args, locals, session_id, result, how, reqs, authResp, epResp,
          calls, authPosts, authOut>>

(***************************************************************************)
(* Python values.  Strings are TLA+ strings; None is a reserved string, so *)
(* that every comparison is between strings.  Omitted marks an argument    *)
(* the caller did not pass at all.                                         *)
(***************************************************************************)
None == "<None>"
Omitted == "<omitted>"

\* the booleans True and False, kept apart from the strings "True" and "False"
PyTrue == "<True>"
PyFalse == "<False>"

\* A list of strings is written as its repr, which no string argument of the
\* model takes as a value; ListItems gives its elements in order.
ListValues == {"[]", "['A']", "['A', 'B']", "['B', 'A']", "['132']", "['132', '145']"}
IsList(v) == v \in ListValues
ListItems(v) ==
  CASE v = "[]" -> <<>>
    [] v = "['A']" -> <<"A">>
    [] v = "['A', 'B']" -> <<"A", "B">>
    [] v = "['B', 'A']" -> <<"B", "A">>
    [] v = "['132']" -> <<"132">>
    [] v = "['132', '145']" -> <<"132", "145">>

\* bool(v): None, "", False and the empty list are falsy
Truthy(v) == v \notin {None, "", PyFalse, "[]"}

\* str(v): of None, of a bool, of a string, of a list (its repr)
Str(v) ==
  CASE v = None -> "None"
    [] v = PyTrue -> "True"
    [] v = PyFalse -> "False"
    [] OTHER -> v

\* s.lower() on the strings it is applied to: the str() of a bool or of None
Lower(s) ==
  CASE s = "True" -> "true"
    [] s = "False" -> "false"
    [] s = "None" -> "none"
    [] OTHER -> s

\* dict / list / None as json.loads produces them: a type tag and, for a
\* dict, its items as <<key, value>> pairs
PyDict(items) == [t |-> "dict", d |-> items]
PyList == [t |-> "list", d |-> {}]
PyNone == [t |-> "NoneType", d |-> {}]
NoValue == [t |-> "<no value>", d |-> {}]

HasKey(v, k) == \E p \in v.d : p[1] = k
\* dict.get(k): the value, or None when the key is absent
DictGet(v, k) == IF HasKey(v, k) THEN (CHOOSE p \in v.d : p[1] = k)[2] ELSE None

\* the outcome of evaluating a Python expression or call: a value, or an
\* exception of some class with its str() text
Returns(v) == [raised |-> FALSE, etype |-> "", text |-> "", value |-> v]
Raises(etype, text) == [raised |-> TRUE, etype |-> etype, text |-> text, value |-> None]
RaisesV(etype, text) == [raised |-> TRUE, etype |-> etype, text |-> text, value |-> NoValue]

(***************************************************************************)
(* Process environment (os.getenv).                                        *)
(***************************************************************************)
DefaultBaseUrl == "https://salesdemoapi.prismhr.com/prismhr-api"
OtherBaseUrl == "https://api.prismhr.example/prismhr-api"
NoSchemeBaseUrl == "api.prismhr.example/prismhr-api"

EnvNames == {"PRISMHR_USERNAME", "PRISMHR_PASSWORD", "PRISMHR_PEO_ID", "PRISMHR_BASE_URL"}
EnvValues(n) ==
  CASE n = "PRISMHR_USERNAME" -> {None, "", "wsuser"}
    [] n = "PRISMHR_PASSWORD" -> {None, "", "s3cret"}
    [] n = "PRISMHR_PEO_ID" -> {None, "", "624*D"}
    [] n = "PRISMHR_BASE_URL" -> {None, OtherBaseUrl, NoSchemeBaseUrl}
Envs == {e \in [EnvNames -> {None, "", "wsuser", "s3cret", "624*D", OtherBaseUrl, NoSchemeBaseUrl}] :
           \A n \in EnvNames : e[n] \in EnvValues(n)}

\* a variant that reads module-level constants set when the module was
\* imported (with all three credentials in the environment) instead of the
\* environment of the call
GetenvAtImport(e, n) ==
  CASE n = "PRISMHR_USERNAME" -> "wsuser"
    [] n = "PRISMHR_PASSWORD" -> "s3cret"
    [] n = "PRISMHR_PEO_ID" -> "624*D"
    [] OTHER -> e[n]

\* os.getenv(name): None when the variable is unset
Getenv(e, n) == e[n]
\* os.getenv(name, default): the default only when the variable is unset
GetenvDefault(e, n, default) == IF e[n] = None THEN default ELSE e[n]

(***************************************************************************)
(* urllib: request construction, URL encoding, responses, JSON decoding.   *)
(***************************************************************************)
\* urllib.request.Request accepts a URL only when it has a scheme; the
\* constructor raises ValueError("unknown url type: ...") otherwise
HasScheme(base_url) == base_url \in {DefaultBaseUrl, OtherBaseUrl}

\* urllib.parse.quote_plus on the strings of the model: "*" and " " are the
\* characters that do not pass unchanged
BracketNames ==
  {"employeeId", "clientId", "employerId", "glAccount", "glCostCenter", "glDetailCodeType",
   "glDetailCode", "voucherId", "checkNumber"}
\* quote_plus of a key written as f"{k}[{i}]": the brackets are escaped
QuotePlusBracket(s) ==
  LET m == {kn \in BracketNames \X (0..2) : s = kn[1] \o "[" \o ToString(kn[2]) \o "]"}
  IN IF m = {} THEN s
     ELSE LET kn == CHOOSE x \in m : TRUE
          IN kn[1] \o "%5B" \o ToString(kn[2]) \o "%5D"
QuotePlus(s) ==
  CASE s = "624*D" -> "624%2AD"
    [] s = "J 00809" -> "J+00809"
    [] s = "O Neil" -> "O+Neil"
    [] s = "[]" -> "%5B%5D"
    [] s = "['A']" -> "%5B%27A%27%5D"
    [] s = "['A', 'B']" -> "%5B%27A%27%2C+%27B%27%5D"
    [] s = "['B', 'A']" -> "%5B%27B%27%2C+%27A%27%5D"
    [] s = "['132']" -> "%5B%27132%27%5D"
    [] s = "['132', '145']" -> "%5B%27132%27%2C+%27145%27%5D"
    [] OTHER -> QuotePlusBracket(s)

\* urllib.parse.urlencode(params) of an insertion-ordered dict: the "&"-joined
\* pairs quote_plus(k)=quote_plus(str(v)), kept as a sequence of pairs
Urlencode(params) ==
  [n \in 1..Len(params) |-> <<QuotePlus(params[n][1]), QuotePlus(Str(params[n][2]))>>]

\* urllib.parse.urlencode(params, doseq=True): a value that is a list gives
\* one pair per element, in the order of the list, all under the same key; a
\* string or None gives one pair as without doseq
RECURSIVE UrlencodeDoseq(_)
UrlencodeDoseq(params) ==
  IF params = <<>> THEN <<>>
  ELSE LET k == Head(params)[1]
           v == Head(params)[2]
           pairs == IF IsList(v)
                      THEN [n \in 1..Len(ListItems(v)) |->
                              <<QuotePlus(k), QuotePlus(ListItems(v)[n])>>]
                      ELSE << <<QuotePlus(k), QuotePlus(Str(v))>> >>
       IN pairs \o UrlencodeDoseq(Tail(params))

\* params[k] = v on an insertion-ordered dict: a key that is present keeps
\* its place and takes the new value, a new key goes to the end
DictSet(params, k, v) ==
  IF \E n \in 1..Len(params) : params[n][1] = k
    THEN [n \in 1..Len(params) |-> IF params[n][1] = k THEN <<k, v>> ELSE params[n]]
    ELSE Append(params, <<k, v>>)

\* for x in xs: params[k] = x
RECURSIVE ForEachSet(_, _, _)
ForEachSet(params, k, xs) ==
  IF xs = <<>> THEN params ELSE ForEachSet(DictSet(params, k, Head(xs)), k, Tail(xs))

\* a variant whose index stays where it started: params[f"{k}[0]"] = x
RECURSIVE EnumerateSetFixed(_, _, _, _)
EnumerateSetFixed(params, k, xs, i) ==
  IF xs = <<>> THEN params
  ELSE EnumerateSetFixed(DictSet(params, k \o "[" \o ToString(i) \o "]", Head(xs)),
                         k, Tail(xs), i)

\* for i, x in enumerate(xs): params[f"{k}[{i}]"] = x   (counting from i)
RECURSIVE EnumerateSet(_, _, _, _)
EnumerateSet(params, k, xs, i) ==
  IF xs = <<>> THEN params
  ELSE EnumerateSet(DictSet(params, k \o "[" \o ToString(i) \o "]", Head(xs)),
                    k, Tail(xs), i + 1)

\* urllib.request.Request(url, data=..., headers=...): POST when it has data
Request(url, query, data, headers) ==
  [method |-> IF data = <<>> THEN "GET" ELSE "POST",
   url |-> url, query |-> query, data |-> data, headers |-> headers]

\* what a blocking urlopen(request, timeout=30) can end in: an exception
\* (HTTP status error, unreachable host, timeout) or a response body, which
\* is well-formed JSON text denoting `value`, or is not JSON
UrlopenRaises(etype, text) ==
  [raised |-> TRUE, etype |-> etype, text |-> text, wellformed |-> FALSE, value |-> NoValue]
UrlopenBody(wellformed, value) ==
  [raised |-> FALSE, etype |-> "", text |-> "", wellformed |-> wellformed, value |-> value]
NoResponse ==
  [raised |-> FALSE, etype |-> "<none>", text |-> "", wellformed |-> FALSE, value |-> NoValue]

\* urlopen(..., timeout=30): the seconds a blocking call may take
UrlopenTimeout == 30
\* the request as it goes on the wire, with the timeout the call was given
OnWire(request, timeout) == request @@ [timeout |-> timeout]

\* a variant that sends the request a second time
UrlopenRetry(request) == <<OnWire(request, UrlopenTimeout), OnWire(request, UrlopenTimeout)>>

\* a variant that leaves the timeout out: urlopen(request) blocks without
\* limit (written 0 here)
UrlopenNoTimeout(request) == <<OnWire(request, 0)>>

\* one urlopen(request, timeout=30) call puts its request on the wire once:
\* urllib does not retry
Urlopen(request) == <<OnWire(request, UrlopenTimeout)>>

HttpError500 == UrlopenRaises("HTTPError", "HTTP Error 500: Internal Server Error")
HttpError401 == UrlopenRaises("HTTPError", "HTTP Error 401: Unauthorized")
TimedOut == UrlopenRaises("TimeoutError", "timed out")
Unreachable == UrlopenRaises("URLError", "<urlopen error [Errno 111] Connection refused>")
NotJson == UrlopenBody(FALSE, NoValue)
\* an HTTP error status whose body (which the code never reads) is `value`
HttpErrorWith(text, value) ==
  [raised |-> TRUE, etype |-> "HTTPError", text |-> text, wellformed |-> TRUE, value |-> value]

\* json.loads(response.read().decode('utf-8'))
JsonLoads(resp) ==
  IF resp.wellformed
    THEN Returns(resp.value)
    ELSE RaisesV("JSONDecodeError", "Expecting value: line 1 column 1 (char 0)")

\* the exception classes of the model are all subclasses of Exception
ExceptionClasses ==
  {"HTTPError", "URLError", "TimeoutError", "JSONDecodeError", "AttributeError", "ValueError"}

(***************************************************************************)
(* authenticate_prismhr                                                    *)
(***************************************************************************)
AuthPath == "/services/rest/login/v1/createPeoSession"
AuthHeaders == {<<"Content-Type", "application/x-www-form-urlencoded">>, <<"Accept", "application/json">>}

\* a variant that sends the form in the URL's query as well as in the body
authenticate_request_in_query(username, password, peo_id, base_url) ==
  LET auth_data == Urlencode(<< <<"username", username>>, <<"password", password>>,
                                <<"peoId", peo_id>> >>)
  IN IF HasScheme(base_url)
       THEN Returns(Request(base_url \o AuthPath, auth_data, auth_data, AuthHeaders))
       ELSE Raises("ValueError", "unknown url type: '" \o base_url \o AuthPath \o "'")

\* a variant whose caller leaves base_url to the parameter's default
authenticate_request_default_host(username, password, peo_id, base_url) ==
  Returns(Request(DefaultBaseUrl \o AuthPath, <<>>,
                  Urlencode(<< <<"username", username>>, <<"password", password>>,
                               <<"peoId", peo_id>> >>),
                  AuthHeaders))

\* lines 31-45: the URL, the form body and the Request, built before the try
authenticate_request(username, password, peo_id, base_url) ==
  LET auth_url == base_url \o AuthPath
      auth_data == Urlencode(<< <<"username", username>>, <<"password", password>>,
                                <<"peoId", peo_id>> >>)
  IN IF HasScheme(base_url)
       THEN Returns(Request(auth_url, <<>>, auth_data, AuthHeaders))
       ELSE Raises("ValueError", "unknown url type: '" \o auth_url \o "'")

\* a variant that returns whatever sessionId the response carries, without
\* looking at errorCode
authenticate_try_session_only(resp) ==
  IF resp.raised THEN Raises(resp.etype, resp.text)
  ELSE IF JsonLoads(resp).raised THEN Raises(JsonLoads(resp).etype, JsonLoads(resp).text)
  ELSE IF JsonLoads(resp).value.t # "dict" THEN Raises("AttributeError", "no attribute 'get'")
  ELSE Returns(DictGet(JsonLoads(resp).value, "sessionId"))

\* lines 48-55: the body of the try block, given what urlopen ended in
authenticate_try(resp) ==
  IF resp.raised THEN Raises(resp.etype, resp.text)
  ELSE LET auth_result == JsonLoads(resp)
       IN IF auth_result.raised THEN Raises(auth_result.etype, auth_result.text)
          ELSE IF auth_result.value.t # "dict"
            THEN Raises("AttributeError",
                        "'" \o auth_result.value.t \o "' object has no attribute 'get'")
          ELSE IF DictGet(auth_result.value, "errorCode") = "0"
            THEN Returns(DictGet(auth_result.value, "sessionId"))
            ELSE Returns(None)

\* lines 57-59: except Exception: log and return None
authenticate_except(out) ==
  IF out.raised /\ out.etype \in ExceptionClasses THEN Returns(None) ELSE out

\* lines 47-59: what authenticate_prismhr hands back once urlopen has ended
authenticate_response(resp) == authenticate_except(authenticate_try(resp))

(***************************************************************************)
(* The relay tools.  Each is a Python function of its own; they differ in  *)
(* their signature, their upstream path, the params they build and the     *)
(* name used in their error text.                                          *)
(***************************************************************************)
Tools == {"get_employee_list", "get_employee"}

\* the relays whose parameters are optional strings with paging, booleans
\* and lists of strings
SerTools ==
  {"get_employee", "get_job_applicant_list", "get_absence_journal", "get_retirement_plan",
   "get_active_employee_count_by_entity", "download_w2", "get_payroll_summary",
   "get_ar_transaction_report"}
\* the relays that write a list under keys indexed by hand
IdxTools == {"reprint_1099", "get_gl_detail_download"}

\* def get_employee_list(client_id, status_class=None, type_class=None)
\* def get_employee(client_id, employee_id, options=None)
\* def get_job_applicant_list(client_id, applicant_id=None, apply_date=None,
\*                            last_name=None, count=None, startpage=None)
\* def get_absence_journal(client_id, journal_id: List[str])
\* def get_retirement_plan(client_id, employee_id, effective_date=None,
\*                         is_active: Optional[bool] = None)
\* def get_active_employee_count_by_entity(client_id, entity_type,
\*         include_obsolete: Optional[bool] = None, download_id=None)
\* def download_w2(client_id, employee_id: List[str], year)
\* def get_payroll_summary(client_id, year=None, batch_type=None, batch_id=None,
\*                         include_details: Optional[bool] = None, sort=None)
\* def get_ar_transaction_report(start_date, end_date, download_id=None,
\*                               client_id: Optional[List[str]] = None)
RequiredParams(tl) ==
  CASE tl = "get_employee_list" -> {"client_id"}
    [] tl = "get_employee" -> {"client_id", "employee_id"}
    [] tl = "get_job_applicant_list" -> {"client_id"}
    [] tl = "get_absence_journal" -> {"client_id", "journal_id"}
    [] tl = "get_retirement_plan" -> {"client_id", "employee_id"}
    [] tl = "get_active_employee_count_by_entity" -> {"client_id", "entity_type"}
    [] tl = "download_w2" -> {"client_id", "employee_id", "year"}
    [] tl = "get_payroll_summary" -> {"client_id"}
    [] tl = "get_ar_transaction_report" -> {"start_date", "end_date"}
    [] tl = "reprint_1099" -> {"client_id", "employee_id", "year"}
    [] tl = "get_gl_detail_download" -> {}
    [] tl \in {"test_connection", "small.test_connection"} -> {}
    [] tl = "small.get_employee_list" -> {"client_id"}
    [] tl = "small.get_employee" -> {"client_id", "employee_id"}
OptionalParams(tl) ==
  CASE tl = "get_employee_list" -> {"status_class", "type_class"}
    [] tl = "get_employee" -> {"options"}
    [] tl = "get_job_applicant_list" ->
         {"applicant_id", "apply_date", "last_name", "count", "startpage"}
    [] tl = "get_absence_journal" -> {}
    [] tl = "get_retirement_plan" -> {"effective_date", "is_active"}
    [] tl = "get_active_employee_count_by_entity" -> {"include_obsolete", "download_id"}
    [] tl = "download_w2" -> {}
    [] tl = "get_payroll_summary" ->
         {"year", "batch_type", "batch_id", "include_details", "sort"}
    [] tl = "get_ar_transaction_report" -> {"download_id", "client_id"}
    [] tl = "reprint_1099" -> {}
    [] tl = "get_gl_detail_download" ->
         {"download_id", "batch_id", "start_date", "end_date", "client_id", "employer_id",
          "gl_account", "gl_cost_center", "gl_detail_code_type", "gl_detail_code",
          "voucher_id", "check_number", "employee_id"}
    [] tl \in {"test_connection", "small.test_connection"} -> {}
    [] tl = "small.get_employee_list" -> {"status_class", "type_class"}
    [] tl = "small.get_employee" -> {"options"}
Params(tl) == RequiredParams(tl) \cup OptionalParams(tl)

ToolPath(tl) ==
  CASE tl = "get_employee_list" -> "/services/rest/employee/v1/getEmployeeList"
    [] tl = "get_employee" -> "/services/rest/employee/v1/getEmployee"
    [] tl = "get_job_applicant_list" -> "/services/rest/applicant/v1/getJobApplicantList"
    [] tl = "get_absence_journal" -> "/services/rest/benefits/v1/getAbsenceJournal"
    [] tl = "get_retirement_plan" -> "/services/rest/benefits/v1/getRetirementPlan"
    [] tl = "get_active_employee_count_by_entity" ->
         "/services/rest/clientMaster/v1/getActiveEmployeeCountByEntity"
    [] tl = "download_w2" -> "/services/rest/employee/v1/downloadW2"
    [] tl = "get_payroll_summary" -> "/services/rest/payroll/v1/getPayrollSummary"
    [] tl = "get_ar_transaction_report" -> "/services/rest/system/v1/getARTransactionReport"
    [] tl = "reprint_1099" -> "/services/rest/employee/v1/reprint1099"
    [] tl = "get_gl_detail_download" -> "/services/rest/generalLedger/v1/getGLDetailDownload"
ToolName(tl) ==
  CASE tl = "get_employee_list" -> "Get employee list"
    [] tl = "get_employee" -> "Get employee"
    [] tl = "get_job_applicant_list" -> "Get job applicant list"
    [] tl = "get_absence_journal" -> "Get absence journal"
    [] tl = "get_retirement_plan" -> "Get retirement plan"
    [] tl = "get_active_employee_count_by_entity" -> "Get active employee count by entity"
    [] tl = "download_w2" -> "Download W2"
    [] tl = "get_payroll_summary" -> "Get payroll summary"
    [] tl = "get_ar_transaction_report" -> "Get AR transaction report"
    [] tl = "reprint_1099" -> "Reprint 1099"
    [] tl = "get_gl_detail_download" -> "Get GL detail download"

\* a variant whose signature gives every parameter the default None
BindDefaulted(tl, a) ==
  Returns([p \in Params(tl) |-> IF a[p] = Omitted THEN None ELSE a[p]])

\* Python's binding of the caller's arguments to the signature: a required
\* parameter that was not passed is a TypeError raised at the call, before
\* the function body (and its try) is entered; an optional one takes None
Bind(tl, a) ==
  IF \E p \in RequiredParams(tl) : a[p] = Omitted
    THEN Raises("TypeError", tl \o "() missing required positional argument")
    ELSE Returns([p \in Params(tl) |-> IF a[p] = Omitted THEN None ELSE a[p]])

\* params = {"clientId": client_id}; if status_class: ...; if type_class: ...
get_employee_list_params(a) ==
  << <<"clientId", a["client_id"]>> >>
  \o (IF Truthy(a["status_class"]) THEN << <<"statusClass", a["status_class"]>> >> ELSE <<>>)
  \o (IF Truthy(a["type_class"]) THEN << <<"typeClass", a["type_class"]>> >> ELSE <<>>)

\* a variant that sets employeeId only `if employee_id:`
get_employee_params_guarded(a) ==
  << <<"clientId", a["client_id"]>> >>
  \o (IF Truthy(a["employee_id"]) THEN << <<"employeeId", a["employee_id"]>> >> ELSE <<>>)
  \o (IF Truthy(a["options"]) THEN << <<"options", a["options"]>> >> ELSE <<>>)

\* params = {"clientId": client_id, "employeeId": employee_id}; if options: ...
get_employee_params(a) ==
  << <<"clientId", a["client_id"]>>, <<"employeeId", a["employee_id"]>> >>
  \o (IF Truthy(a["options"]) THEN << <<"options", a["options"]>> >> ELSE <<>>)

\* `if x: params[k] = x`
SetIfTruthy(params, k, x) == IF Truthy(x) THEN DictSet(params, k, x) ELSE params

\* a variant with a copied line left unedited: the last name is stored under
\* the key of the line above it
get_job_applicant_list_params_miskeyed(a) ==
  SetIfTruthy(SetIfTruthy(SetIfTruthy(SetIfTruthy(SetIfTruthy(
    << <<"clientId", a["client_id"]>> >>,
    "applicantId", a["applicant_id"]),
    "applyDate", a["apply_date"]),
    "applyDate", a["last_name"]),
    "count", a["count"]),
    "startpage", a["startpage"])

\* a variant that pages on its own account: it asks for the page after the
\* one the caller named
get_job_applicant_list_params_nextpage(a) ==
  SetIfTruthy(SetIfTruthy(SetIfTruthy(SetIfTruthy(SetIfTruthy(
    << <<"clientId", a["client_id"]>> >>,
    "applicantId", a["applicant_id"]),
    "applyDate", a["apply_date"]),
    "lastName", a["last_name"]),
    "count", a["count"]),
    "startpage", IF a["startpage"] = "0" THEN "1" ELSE a["startpage"])

\* lines 327-338: params = {"clientId": client_id}; if applicant_id: ...;
\* if apply_date: ...; if last_name: ...; if count: ...; if startpage: ...
get_job_applicant_list_params(a) ==
  SetIfTruthy(SetIfTruthy(SetIfTruthy(SetIfTruthy(SetIfTruthy(
    << <<"clientId", a["client_id"]>> >>,
    "applicantId", a["applicant_id"]),
    "applyDate", a["apply_date"]),
    "lastName", a["last_name"]),
    "count", a["count"]),
    "startpage", a["startpage"])

\* lines 627-630: params = {"clientId": client_id, "journalId": journal_id}
get_absence_journal_params(a) ==
  << <<"clientId", a["client_id"]>>, <<"journalId", a["journal_id"]>> >>

\* a variant that puts the optional parameters into the dict literal
get_retirement_plan_params_always(a) ==
  << <<"clientId", a["client_id"]>>, <<"employeeId", a["employee_id"]>>,
     <<"effectiveDate", a["effective_date"]>>,
     <<"isActive", Lower(Str(a["is_active"]))>> >>

\* lines 2962-2970: if effective_date: ...;
\* if is_active is not None: params["isActive"] = str(is_active).lower()
get_retirement_plan_params(a) ==
  LET p1 == SetIfTruthy(<< <<"clientId", a["client_id"]>>, <<"employeeId", a["employee_id"]>> >>,
                        "effectiveDate", a["effective_date"])
  IN IF a["is_active"] # None
       THEN DictSet(p1, "isActive", Lower(Str(a["is_active"])))
       ELSE p1

\* lines 3226-3234: if include_obsolete is not None:
\* params["includeObsolete"] = str(include_obsolete).lower(); if download_id: ...
get_active_employee_count_by_entity_params(a) ==
  LET p1 == IF a["include_obsolete"] # None
              THEN DictSet(<< <<"clientId", a["client_id"]>>, <<"entityType", a["entity_type"]>> >>,
                           "includeObsolete", Lower(Str(a["include_obsolete"])))
              ELSE << <<"clientId", a["client_id"]>>, <<"entityType", a["entity_type"]>> >>
  IN SetIfTruthy(p1, "downloadId", a["download_id"])

\* lines 7123-7129: params = {"clientId": client_id, "year": year};
\* for eid in employee_id: params["employeeId"] = eid
download_w2_params(a) ==
  ForEachSet(<< <<"clientId", a["client_id"]>>, <<"year", a["year"]>> >>,
             "employeeId", ListItems(a["employee_id"]))

\* lines 11262-11275: if include_details is not None:
\* params["includeDetails"] = include_details   (the bool itself)
get_payroll_summary_params(a) ==
  LET p3 == SetIfTruthy(SetIfTruthy(SetIfTruthy(
              << <<"clientId", a["client_id"]>> >>,
              "year", a["year"]),
              "batchType", a["batch_type"]),
              "batchId", a["batch_id"])
      p4 == IF a["include_details"] # None
              THEN DictSet(p3, "includeDetails", a["include_details"])
              ELSE p3
  IN SetIfTruthy(p4, "sort", a["sort"])

\* lines 13280-13288: if download_id: ...; if client_id:
\* params["clientId"] = client_id   (the list itself)
get_ar_transaction_report_params(a) ==
  SetIfTruthy(SetIfTruthy(
    << <<"startDate", a["start_date"]>>, <<"endDate", a["end_date"]>> >>,
    "downloadId", a["download_id"]),
    "clientId", a["client_id"])

\* lines 8487-8494: an unguarded loop over the required employee_id
reprint_1099_params(a) ==
  EnumerateSet(<< <<"clientId", a["client_id"]>>, <<"year", a["year"]>> >>,
               "employeeId", ListItems(a["employee_id"]), 0)

\* if xs: for i, x in enumerate(xs): params[f"{k}[{i}]"] = x
EnumerateIfTruthy(params, k, xs) ==
  IF Truthy(xs) THEN EnumerateSet(params, k, ListItems(xs), 0) ELSE params

\* lines 8861-8899
get_gl_detail_download_params(a) ==
  LET scalars == SetIfTruthy(SetIfTruthy(SetIfTruthy(SetIfTruthy(<<>>,
                   "downloadId", a["download_id"]),
                   "batchId", a["batch_id"]),
                   "startDate", a["start_date"]),
                   "endDate", a["end_date"])
  IN EnumerateIfTruthy(EnumerateIfTruthy(EnumerateIfTruthy(EnumerateIfTruthy(
     EnumerateIfTruthy(EnumerateIfTruthy(EnumerateIfTruthy(EnumerateIfTruthy(
     EnumerateIfTruthy(scalars,
       "clientId", a["client_id"]),
       "employerId", a["employer_id"]),
       "glAccount", a["gl_account"]),
       "glCostCenter", a["gl_cost_center"]),
       "glDetailCodeType", a["gl_detail_code_type"]),
       "glDetailCode", a["gl_detail_code"]),
       "voucherId", a["voucher_id"]),
       "checkNumber", a["check_number"]),
       "employeeId", a["employee_id"])

ToolParams(tl, a) ==
  CASE tl = "get_employee_list" -> get_employee_list_params(a)
    [] tl = "get_employee" -> get_employee_params(a)
    [] tl = "get_job_applicant_list" -> get_job_applicant_list_params(a)
    [] tl = "get_absence_journal" -> get_absence_journal_params(a)
    [] tl = "get_retirement_plan" -> get_retirement_plan_params(a)
    [] tl = "get_active_employee_count_by_entity" ->
         get_active_employee_count_by_entity_params(a)
    [] tl = "download_w2" -> download_w2_params(a)
    [] tl = "get_payroll_summary" -> get_payroll_summary_params(a)
    [] tl = "get_ar_transaction_report" -> get_ar_transaction_report_params(a)
    [] tl = "reprint_1099" -> reprint_1099_params(a)
    [] tl = "get_gl_detail_download" -> get_gl_detail_download_params(a)

\* query_string = urllib.parse.urlencode(params), which get_absence_journal
\* calls with doseq=True
ToolQuery(tl, a) ==
  IF tl = "get_absence_journal"
    THEN UrlencodeDoseq(ToolParams(tl, a))
    ELSE Urlencode(ToolParams(tl, a))

\* a variant that keeps the session in a module-level variable shared by the
\* frames: the header carries a token some frame already holds, if there is one
RelayHeadersShared(sid) ==
  LET held == {session_id[j] : j \in Procs} \ {None, ""}
  IN {<<"sessionId", IF held = {} THEN sid ELSE CHOOSE t \in held : TRUE>>,
      <<"Accept", "application/json">>}

\* headers={"sessionId": session_id, "Accept": "application/json"}
RelayHeaders(sid) == {<<"sessionId", sid>>, <<"Accept", "application/json">>}

\* a variant that sends the token as a query parameter instead of a header
RelayRequestTokenInQuery(tl, a, base_url, sid) ==
  Request(base_url \o ToolPath(tl), Append(ToolQuery(tl, a), <<"sessionId", sid>>), <<>>,
          {<<"Accept", "application/json">>})

\* url, params, query_string, full_url and the Request of the endpoint call
RelayRequest(tl, a, base_url, sid) ==
  Request(base_url \o ToolPath(tl), ToolQuery(tl, a), <<>>, RelayHeaders(sid))

ErrorDict(msg) == PyDict({<<"error", msg>>})
MissingCredentials == ErrorDict("Missing PrismHR credentials")
AuthenticationFailed == ErrorDict("Authentication failed")

\* a variant that tests whether each credential is set at all:
\* if username is None or password is None or peo_id is None
AllCredentialsIsSet(username, password, peo_id) ==
  username # None /\ password # None /\ peo_id # None

\* a variant that forgets peo_id: all([username, password])
AllCredentialsNoPeo(username, password, peo_id) ==
  Truthy(username) /\ Truthy(password)

\* all([username, password, peo_id])
AllCredentials(username, password, peo_id) ==
  Truthy(username) /\ Truthy(password) /\ Truthy(peo_id)

\* a variant that tests `session_id is None` instead of `not session_id`
NoSessionNoneOnly(sid) == sid = None

\* a variant that tests `session_id == ""` instead of `not session_id`
NoSessionEmptyOnly(sid) == sid = ""

\* if not session_id: return {"error": "Authentication failed"}
NoSession(sid) == ~Truthy(sid)

\* a variant that wraps the parsed body, as the disabled request_pto does:
\* return {"success": True, "response": result}
RelayTryWrapped(resp) ==
  IF resp.raised THEN RaisesV(resp.etype, resp.text)
  ELSE IF JsonLoads(resp).raised THEN JsonLoads(resp)
  ELSE Returns(PyDict({<<"success", "True">>, <<"response", "<result>">>}))

\* a variant that inspects errorCode, as the disabled request_pto does, and
\* raises on an upstream error payload
RelayTryChecked(resp) ==
  IF resp.raised THEN RaisesV(resp.etype, resp.text)
  ELSE IF JsonLoads(resp).raised THEN JsonLoads(resp)
  ELSE IF JsonLoads(resp).value.t = "dict" /\ HasKey(JsonLoads(resp).value, "errorCode")
          /\ DictGet(JsonLoads(resp).value, "errorCode") # "0"
    THEN RaisesV("ValueError", DictGet(JsonLoads(resp).value, "errorMessage"))
  ELSE JsonLoads(resp)

\* a variant that keeps the last result in a module-level variable and
\* answers from it while another call's result is still there
RelayTryMemo(resp) ==
  LET kept == {j \in Procs : pc[j] = "done" /\ epResp[j] # NoResponse}
  IN IF kept # {} THEN Returns(result[CHOOSE j \in kept : TRUE])
     ELSE IF resp.raised THEN RaisesV(resp.etype, resp.text) ELSE JsonLoads(resp)

\* with urlopen(request, timeout=30) as response: result = json.loads(...);
\* return result
RelayTry(resp) ==
  IF resp.raised THEN RaisesV(resp.etype, resp.text) ELSE JsonLoads(resp)

\* a variant with a narrower clause: except urllib.error.URLError as e
RelayExceptUrlError(tl, out) ==
  IF out.raised /\ out.etype \in {"HTTPError", "URLError"}
    THEN Returns(ErrorDict(ToolName(tl) \o " failed: " \o out.text))
    ELSE out

\* except Exception as e: log; return {"error": f"<name> failed: {e}"}
RelayExcept(tl, out) ==
  IF out.raised /\ out.etype \in ExceptionClasses
    THEN Returns(ErrorDict(ToolName(tl) \o " failed: " \o out.text))
    ELSE out

(***************************************************************************)
(* test_connection (prismhr_mcp_server.py, lines 14684-14731).  A dict     *)
(* nested in a result is written with dotted keys:                         *)
(* {"credentials_status": {"username": True}} has the item                 *)
(* <<"credentials_status.username", PyTrue>>.                              *)
(***************************************************************************)
\* bool(v)
PyBool(v) == IF Truthy(v) THEN PyTrue ELSE PyFalse

MissingCredentialsText ==
  "Missing PrismHR credentials. Please set PRISMHR_USERNAME, PRISMHR_PASSWORD, and PRISMHR_PEO_ID environment variables."

\* a variant that reports a credential as present when it is set at all
\* (`username is not None`), be it to the empty string
test_connection_missing_is_set(username, password, peo_id) ==
  PyDict({<<"success", PyFalse>>, <<"error", MissingCredentialsText>>,
          <<"credentials_status.username", IF username # None THEN PyTrue ELSE PyFalse>>,
          <<"credentials_status.password", IF password # None THEN PyTrue ELSE PyFalse>>,
          <<"credentials_status.peo_id", IF peo_id # None THEN PyTrue ELSE PyFalse>>})

\* lines 14699-14707: the result when a credential is missing
test_connection_missing(username, password, peo_id) ==
  PyDict({<<"success", PyFalse>>, <<"error", MissingCredentialsText>>,
          <<"credentials_status.username", PyBool(username)>>,
          <<"credentials_status.password", PyBool(password)>>,
          <<"credentials_status.peo_id", PyBool(peo_id)>>})

\* a variant that reports success whenever authenticate_prismhr returned
test_connection_result_always(sid, base_url) ==
  PyDict({<<"success", PyTrue>>, <<"message", "Connection test successful">>,
          <<"session_id", sid>>, <<"base_url", base_url>>})

\* lines 14712-14724: if session_id: {...success...} else: {...failure...}
test_connection_result(sid, base_url) ==
  IF Truthy(sid)
    THEN PyDict({<<"success", PyTrue>>, <<"message", "Connection test successful">>,
                 <<"session_id", sid>>, <<"base_url", base_url>>})
    ELSE PyDict({<<"success", PyFalse>>,
                 <<"error", "Authentication failed - check credentials">>,
                 <<"base_url", base_url>>})

\* lines 14726-14731: except Exception as e
test_connection_except(out) ==
  IF out.raised /\ out.etype \in ExceptionClasses
    THEN Returns(PyDict({<<"success", PyFalse>>,
                         <<"error", "Connection test failed: " \o out.text>>}))
    ELSE out

(***************************************************************************)
(* The small server (small_prismhr_mcp_server.py): its own copies of       *)
(* authenticate_prismhr, get_employee_list, get_employee, test_connection. *)
(***************************************************************************)
\* small server, lines 31-45
small_authenticate_request(username, password, peo_id, base_url) ==
  LET auth_url == base_url \o "/services/rest/login/v1/createPeoSession"
      auth_data == Urlencode(<< <<"username", username>>, <<"password", password>>,
                                <<"peoId", peo_id>> >>)
  IN IF HasScheme(base_url)
       THEN Returns(Request(auth_url, <<>>, auth_data,
                            {<<"Content-Type", "application/x-www-form-urlencoded">>,
                             <<"Accept", "application/json">>}))
       ELSE Raises("ValueError", "unknown url type: '" \o auth_url \o "'")

\* small server, lines 47-59
small_authenticate_response(resp) ==
  LET out ==
        IF resp.raised THEN Raises(resp.etype, resp.text)
        ELSE LET auth_result == JsonLoads(resp)
             IN IF auth_result.raised THEN Raises(auth_result.etype, auth_result.text)
                ELSE IF auth_result.value.t # "dict"
                  THEN Raises("AttributeError",
                              "'" \o auth_result.value.t \o "' object has no attribute 'get'")
                ELSE IF DictGet(auth_result.value, "errorCode") = "0"
                  THEN Returns(DictGet(auth_result.value, "sessionId"))
                  ELSE Returns(None)
  IN IF out.raised /\ out.etype \in ExceptionClasses THEN Returns(None) ELSE out

\* small server: if not all([username, password, peo_id])
small_all_credentials(username, password, peo_id) ==
  Truthy(username) /\ Truthy(password) /\ Truthy(peo_id)
\* small server: if not session_id
small_no_session(sid) == ~Truthy(sid)

\* small server, lines 202-210 and 259-266
small_get_employee_list_params(a) ==
  SetIfTruthy(SetIfTruthy(<< <<"clientId", a["client_id"]>> >>,
    "statusClass", a["status_class"]),
    "typeClass", a["type_class"])
small_get_employee_params(a) ==
  SetIfTruthy(<< <<"clientId", a["client_id"]>>, <<"employeeId", a["employee_id"]>> >>,
    "options", a["options"])

\* a variant of the small server's request that asks for XML
small_relay_request_xml(tl, a, base_url, sid) ==
  Request(base_url \o (IF tl = "small.get_employee_list"
                         THEN "/services/rest/employee/v1/getEmployeeList"
                         ELSE "/services/rest/employee/v1/getEmployee"),
          Urlencode(IF tl = "small.get_employee_list"
                      THEN small_get_employee_list_params(a)
                      ELSE small_get_employee_params(a)),
          <<>>,
          {<<"sessionId", sid>>, <<"Accept", "application/xml">>})

\* small server, lines 202-221 and 259-277
small_relay_request(tl, a, base_url, sid) ==
  Request(base_url \o (IF tl = "small.get_employee_list"
                         THEN "/services/rest/employee/v1/getEmployeeList"
                         ELSE "/services/rest/employee/v1/getEmployee"),
          Urlencode(IF tl = "small.get_employee_list"
                      THEN small_get_employee_list_params(a)
                      ELSE small_get_employee_params(a)),
          <<>>,
          {<<"sessionId", sid>>, <<"Accept", "application/json">>})

\* small server, lines 223-230 and 279-286
small_relay_return(tl, resp) ==
  LET out == IF resp.raised THEN RaisesV(resp.etype, resp.text) ELSE JsonLoads(resp)
      name == IF tl = "small.get_employee_list" THEN "Get employee list" ELSE "Get employee"
  IN IF out.raised /\ out.etype \in ExceptionClasses
       THEN Returns(PyDict({<<"error", name \o " failed: " \o out.text>>}))
       ELSE out
small_relay_except(tl, out) ==
  LET name == IF tl = "small.get_employee_list" THEN "Get employee list" ELSE "Get employee"
  IN IF out.raised /\ out.etype \in ExceptionClasses
       THEN Returns(PyDict({<<"error", name \o " failed: " \o out.text>>}))
       ELSE out

\* small server, lines 302-312: the result when a credential is missing
small_test_connection_missing(username, password, peo_id) ==
  PyDict({<<"success", PyFalse>>, <<"error", MissingCredentialsText>>,
          <<"credentials_status.username", PyBool(username)>>,
          <<"credentials_status.password", PyBool(password)>>,
          <<"credentials_status.peo_id", PyBool(peo_id)>>})
\* small server, lines 316-328
small_test_connection_result(sid, base_url) ==
  IF Truthy(sid)
    THEN PyDict({<<"success", PyTrue>>, <<"message", "Connection test successful">>,
                 <<"session_id", sid>>, <<"base_url", base_url>>})
    ELSE PyDict({<<"success", PyFalse>>,
                 <<"error", "Authentication failed - check credentials">>,
                 <<"base_url", base_url>>})
\* small server, lines 330-335
small_test_connection_except(out) ==
  IF out.raised /\ out.etype \in ExceptionClasses
    THEN Returns(PyDict({<<"success", PyFalse>>,
                         <<"error", "Connection test failed: " \o out.text>>}))
    ELSE out

(***************************************************************************)
(* What a call of tool tl does at each of its steps.                       *)
(***************************************************************************)
SmallRelays == {"small.get_employee_list", "small.get_employee"}
SmallTools == SmallRelays \cup {"small.test_connection"}
TestTools == {"test_connection", "small.test_connection"}
\* the tools the full server and the small server have in common
TwinTools == {"get_employee_list", "get_employee", "test_connection"}
\* the small server's tool of the same name
Small(tl) == "small." \o tl

\* `all([username, password, peo_id])` as tl evaluates it
ToolAllCredentials(tl, username, password, peo_id) ==
  IF tl \in SmallTools
    THEN small_all_credentials(username, password, peo_id)
    ELSE AllCredentials(username, password, peo_id)

\* the return value of `if not all([username, password, peo_id])`
ToolMissing(tl, username, password, peo_id) ==
  CASE tl = "test_connection" -> test_connection_missing(username, password, peo_id)
    [] tl = "small.test_connection" -> small_test_connection_missing(username, password, peo_id)
    [] tl \in SmallRelays -> PyDict({<<"error", "Missing PrismHR credentials">>})
    [] OTHER -> MissingCredentials

\* the authenticate_prismhr of the server that tl belongs to
ToolAuthenticateRequest(tl, username, password, peo_id, base_url) ==
  IF tl \in SmallTools
    THEN small_authenticate_request(username, password, peo_id, base_url)
    ELSE authenticate_request(username, password, peo_id, base_url)
ToolAuthenticateResponse(tl, resp) ==
  IF tl \in SmallTools THEN small_authenticate_response(resp) ELSE authenticate_response(resp)

\* the except clause of tl
ToolExcept(tl, out) ==
  CASE tl = "test_connection" -> test_connection_except(out)
    [] tl = "small.test_connection" -> small_test_connection_except(out)
    [] tl \in SmallRelays -> small_relay_except(tl, out)
    [] OTHER -> RelayExcept(tl, out)

\* the value tl returns right after authenticate_prismhr handed back sid, if
\* it returns there: the relays when they have no token, test_connection
\* always
ReturnsAfterAuth(tl, sid) ==
  \/ tl \in TestTools
  \/ IF tl \in SmallRelays THEN small_no_session(sid) ELSE NoSession(sid)
ToolAfterAuth(tl, sid, base_url) ==
  CASE tl = "test_connection" -> test_connection_result(sid, base_url)
    [] tl = "small.test_connection" -> small_test_connection_result(sid, base_url)
    [] tl \in SmallRelays -> PyDict({<<"error", "Authentication failed">>})
    [] OTHER -> AuthenticationFailed

\* the endpoint request of relay tl
ToolRequest(tl, a, base_url, sid) ==
  IF tl \in SmallRelays
    THEN small_relay_request(tl, a, base_url, sid)
    ELSE RelayRequest(tl, a, base_url, sid)

\* what relay tl returns once its endpoint urlopen has ended
ToolReturn(tl, resp) ==
  IF tl \in SmallRelays THEN small_relay_return(tl, resp) ELSE RelayExcept(tl, RelayTry(resp))

(***************************************************************************)
(* Inputs: the arguments callers pass and the responses the upstream gives.*)
(***************************************************************************)
ArgValues(p) ==
  CASE p = "client_id" -> {"132", Omitted}
    [] p = "employee_id" -> {"J00809", Omitted}
    [] p = "status_class" -> {Omitted, "A", ""}
    [] p = "type_class" -> {Omitted, "F"}
    [] p = "options" -> {Omitted, "Person"}
CallArgs(tl) ==
  {a \in [Params(tl) -> {"132", "J00809", "A", "", "F", "Person", Omitted}] :
     \A p \in Params(tl) : a[p] \in ArgValues(p)}

AuthBody(items) == UrlopenBody(TRUE, PyDict(items))
AuthOk(sessionId) == AuthBody({<<"errorCode", "0">>, <<"sessionId", sessionId>>})
BadPassword == AuthBody({<<"errorCode", "1">>, <<"errorMessage", "bad password">>})
AuthResponses ==
  { AuthOk("abc123"), AuthOk("xyz789"),
    AuthOk(""), AuthOk(None), AuthBody({<<"errorCode", "0">>}),
    BadPassword,
    AuthBody({<<"sessionId", "abc123">>}),
    AuthBody({<<"errorCode", "<int 0>">>, <<"sessionId", "abc123">>}),
    UrlopenBody(TRUE, PyList), UrlopenBody(TRUE, PyNone), NotJson,
    HttpError401, TimedOut, Unreachable }

Employees == PyDict({<<"employees", "[]">>})
ErrorPayload == PyDict({<<"errorCode", "1">>, <<"errorMessage", "Invalid client">>})
EndpointResponses ==
  { UrlopenBody(TRUE, Employees), UrlopenBody(TRUE, ErrorPayload),
    UrlopenBody(TRUE, PyList), UrlopenBody(TRUE, PyNone), NotJson,
    HttpError500, HttpErrorWith("HTTP Error 400: Bad Request", ErrorPayload), TimedOut,
    Unreachable }

(***************************************************************************)
(* Initial state and actions.                                              *)
(***************************************************************************)
NoLocals == [username |-> None, password |-> None, peo_id |-> None, base_url |-> None]
NoArgs == [p \in {} |-> None]

Init ==
  /\ env \in Envs
  /\ pc = [i \in Procs |-> "idle"]
  /\ tool = [i \in Procs |-> None]
  /\ passed = [i \in Procs |-> NoArgs]
  /\ args = [i \in Procs |-> NoArgs]
  /\ locals = [i \in Procs |-> NoLocals]
  /\ session_id = [i \in Procs |-> None]
  /\ result = [i \in Procs |-> NoValue]
  /\ how = [i \in Procs |-> "none"]
  /\ reqs = [i \in Procs |-> <<>>]
  /\ authResp = [i \in Procs |-> NoResponse]
  /\ epResp = [i \in Procs |-> NoResponse]
  /\ calls = 0
  /\ authPosts = 0
  /\ authOut = [i \in Procs |-> "none"]

\* a variant that waits for a token: on an authentication failure it does
\* not return but stays where it is and authenticates again
FinishWait(i, out) ==
  IF out.value = [t |-> "dict", d |-> {<<"error", "Authentication failed">>}]
    THEN UNCHANGED <<pc, how, result>>
    ELSE /\ pc' = [pc EXCEPT ![i] = "done"]
         /\ how' = [how EXCEPT ![i] = IF out.raised THEN "raised" ELSE "returned"]
         /\ result' = [result EXCEPT ![i] = out.value]

\* the call ends: by returning out.value, or by an exception leaving it
Finish(i, out) ==
  /\ pc' = [pc EXCEPT ![i] = "done"]
  /\ how' = [how EXCEPT ![i] = IF out.raised THEN "raised" ELSE "returned"]
  /\ result' = [result EXCEPT ![i] = out.value]

\* A caller invokes tool tl with arguments a.  The frame binds the arguments,
\* reads the environment, checks the credentials and calls
\* authenticate_prismhr, which builds its request and blocks in urlopen.
Invoke(i, tl, a) ==
  /\ pc[i] = "idle"
  /\ calls < MaxCalls
  /\ tool' = [tool EXCEPT ![i] = tl]
  /\ passed' = [passed EXCEPT ![i] = a]
  /\ UNCHANGED <<env, session_id, authResp, epResp>>
  /\ LET bound == Bind(tl, a)
         username == Getenv(env, "PRISMHR_USERNAME")
         password == Getenv(env, "PRISMHR_PASSWORD")
         peo_id == Getenv(env, "PRISMHR_PEO_ID")
         base_url == GetenvDefault(env, "PRISMHR_BASE_URL", DefaultBaseUrl)
         auth_request == ToolAuthenticateRequest(tl, username, password, peo_id, base_url)
     IN IF bound.raised
          THEN /\ pc' = [pc EXCEPT ![i] = "done"]
               /\ how' = [how EXCEPT ![i] = "rejected"]
               /\ UNCHANGED <<args, locals, result, reqs, calls, authPosts, authOut>>
          ELSE /\ args' = [args EXCEPT ![i] = bound.value]
               /\ locals' = [locals EXCEPT ![i] =
                    [username |-> username, password |-> password,
                     peo_id |-> peo_id, base_url |-> base_url]]
               /\ IF ~ToolAllCredentials(tl, username, password, peo_id)
                    THEN /\ Finish(i, Returns(ToolMissing(tl, username, password, peo_id)))
                         /\ UNCHANGED <<reqs, calls, authPosts, authOut>>
                    ELSE /\ calls' = calls + 1
                         /\ IF auth_request.raised
                              THEN /\ Finish(i, ToolExcept(tl,
                                        RaisesV(auth_request.etype, auth_request.text)))
                                   /\ authOut' = [authOut EXCEPT ![i] = "raised"]
                                   /\ UNCHANGED <<reqs, authPosts>>
                              ELSE /\ pc' = [pc EXCEPT ![i] = "auth"]
                                   /\ reqs' = [reqs EXCEPT ![i] = Urlopen(auth_request.value)]
                                   /\ authPosts' = authPosts + Len(Urlopen(auth_request.value))
                                   /\ UNCHANGED <<result, how, authOut>>

\* The authentication urlopen of frame i ends in resp: authenticate_prismhr
\* returns, and the relay either gives up or builds and issues its GET.
AuthReturn(i, resp) ==
  /\ pc[i] = "auth"
  /\ authResp' = [authResp EXCEPT ![i] = resp]
  /\ UNCHANGED <<env, tool, passed, args, locals, epResp, calls, authPosts>>
  /\ LET out == ToolAuthenticateResponse(tool[i], resp)
     IN /\ authOut' = [authOut EXCEPT ![i] = IF out.raised THEN "raised" ELSE "returned"]
        /\ IF out.raised
             THEN /\ Finish(i, ToolExcept(tool[i], RaisesV(out.etype, out.text)))
                  /\ UNCHANGED <<session_id, reqs>>
             ELSE /\ session_id' = [session_id EXCEPT ![i] = out.value]
                  /\ IF ReturnsAfterAuth(tool[i], out.value)
                       THEN /\ Finish(i, Returns(
                                 ToolAfterAuth(tool[i], out.value, locals[i].base_url)))
                            /\ UNCHANGED reqs
                       ELSE /\ pc' = [pc EXCEPT ![i] = "endpoint"]
                            /\ reqs' = [reqs EXCEPT ![i] = @ \o Urlopen(
                                 ToolRequest(tool[i], args[i], locals[i].base_url, out.value))]
                            /\ UNCHANGED <<result, how>>

\* The endpoint urlopen of frame i ends in resp: the relay returns the parsed
\* body, or the error dictionary of its except clause.
EndpointReturn(i, resp) ==
  /\ pc[i] = "endpoint"
  /\ epResp' = [epResp EXCEPT ![i] = resp]
  /\ Finish(i, ToolReturn(tool[i], resp))
  /\ UNCHANGED <<env, tool, passed, args, locals, session_id, reqs, authResp, calls, authPosts,
                 authOut>>

\* The caller has taken the result; the frame and its locals are gone.
Return(i) ==
  /\ pc[i] = "done"
  /\ pc' = [pc EXCEPT ![i] = "idle"]
  /\ tool' = [tool EXCEPT ![i] = None]
  /\ passed' = [passed EXCEPT ![i] = NoArgs]
  /\ args' = [args EXCEPT ![i] = NoArgs]
  /\ locals' = [locals EXCEPT ![i] = NoLocals]
  /\ session_id' = [session_id EXCEPT ![i] = None]
  /\ result' = [result EXCEPT ![i] = NoValue]
  /\ how' = [how EXCEPT ![i] = "none"]
  /\ reqs' = [reqs EXCEPT ![i] = <<>>]
  /\ authResp' = [authResp EXCEPT ![i] = NoResponse]
  /\ epResp' = [epResp EXCEPT ![i] = NoResponse]
  /\ authOut' = [authOut EXCEPT ![i] = "none"]
  /\ UNCHANGED <<env, calls, authPosts>>

\* The environment is changed between invocations (a redeployment, a
\* reloaded .env): variable n is set to v, or unset when v is None.
SetEnv(n, v) ==
  /\ \A i \in Procs : pc[i] = "idle"
  /\ v \in EnvValues(n)
  /\ v # env[n]
  /\ env' = [env EXCEPT ![n] = v]
  /\ UNCHANGED <<pc, tool, passed, args, locals, session_id, result, how, reqs, authResp,
                 epResp,
                 calls, authPosts, authOut>>

\* no other frame is open: the server handles one tool call at a time
Quiet(i) == \A j \in Procs \ {i} : pc[j] = "idle"

Next ==
  \/ \E i \in Procs, tl \in Tools : \E a \in CallArgs(tl) : Quiet(i) /\ Invoke(i, tl, a)
  \/ \E i \in Procs, resp \in AuthResponses : AuthReturn(i, resp)
  \/ \E i \in Procs, resp \in EndpointResponses : EndpointReturn(i, resp)
  \/ \E i \in Procs : Return(i)
  \/ \E n \in EnvNames : \E v \in EnvValues(n) : SetEnv(n, v)

Spec == Init /\ [][Next]_vars

\* Every HTTP request a frame is blocked in eventually delivers a response
\* or fails: urlopen(request, timeout=30) returns or raises.
SpecLive ==
  /\ Init /\ [][Next]_vars
  /\ \A i \in Procs :
       /\ WF_vars(\E resp \in AuthResponses : AuthReturn(i, resp))
       /\ WF_vars(\E resp \in EndpointResponses : EndpointReturn(i, resp))

(***************************************************************************)
(* The same frames served concurrently: the hosting framework overlaps     *)
(* tool calls, so the blocking urlopen calls of different frames           *)
(* interleave.  Credentials are present and the base URL is usable.        *)
(***************************************************************************)
ConcCallArgs(tl) == {a \in CallArgs(tl) : \A p \in OptionalParams(tl) : a[p] = Omitted}
ConcAuthResponses == {AuthOk("abc123"), AuthOk("xyz789"), BadPassword, TimedOut}
ConcEndpointResponses == {UrlopenBody(TRUE, Employees), UrlopenBody(TRUE, ErrorPayload), HttpError500}

InitConc ==
  /\ Init
  /\ AllCredentials(env["PRISMHR_USERNAME"], env["PRISMHR_PASSWORD"], env["PRISMHR_PEO_ID"])
  /\ env["PRISMHR_BASE_URL"] # NoSchemeBaseUrl

NextConc ==
  \/ \E i \in Procs, tl \in Tools : \E a \in ConcCallArgs(tl) : Invoke(i, tl, a)
  \/ \E i \in Procs, resp \in ConcAuthResponses : AuthReturn(i, resp)
  \/ \E i \in Procs, resp \in ConcEndpointResponses : EndpointReturn(i, resp)
  \/ \E i \in Procs : Return(i)

SpecConc == InitConc /\ [][NextConc]_vars

(***************************************************************************)
(* The full server and the small server side by side: frame 1 is a tool    *)
(* call of the full server, frame 2 the call of the same tool with the     *)
(* same arguments of the small server, both started from the same          *)
(* environment.  test_connection is among the tools.                       *)
(***************************************************************************)
FullFrame == 1
SmallFrame == 2

NextBoth ==
  \/ \E tl \in TwinTools : \E a \in CallArgs(tl) :
        pc[SmallFrame] = "idle" /\ Invoke(FullFrame, tl, a)
  \/ /\ pc[FullFrame] = "done"
     /\ Invoke(SmallFrame, Small(tool[FullFrame]), passed[FullFrame])
  \/ \E i \in {FullFrame, SmallFrame}, resp \in AuthResponses : AuthReturn(i, resp)
  \/ \E i \in {FullFrame, SmallFrame}, resp \in EndpointResponses : EndpointReturn(i, resp)
  \/ Return(SmallFrame)
  \/ pc[SmallFrame] = "idle" /\ Return(FullFrame)

SpecBoth == Init /\ [][NextBoth]_vars

(***************************************************************************)
(* The relays with paged, boolean and list parameters, called with every   *)
(* kind of value their parameters take.  Credentials are present, the base *)
(* URL is usable, and calls are served one at a time.                      *)
(***************************************************************************)
SerArgValues(tl, p) ==
  CASE p = "client_id" /\ tl = "get_ar_transaction_report" ->
         {Omitted, "[]", "['132']", "['132', '145']"}
    [] p = "client_id" /\ tl = "get_job_applicant_list" -> {"132", Omitted}
    [] p = "client_id" /\ tl \notin {"get_ar_transaction_report", "get_job_applicant_list"} ->
         {"132"}
    [] p = "employee_id" /\ tl = "download_w2" -> {"[]", "['A']", "['A', 'B']", "['B', 'A']"}
    [] p = "employee_id" /\ tl = "get_employee" -> {"J00809", "J 00809", "", None, Omitted}
    [] p = "employee_id" /\ tl = "get_retirement_plan" -> {"J00809"}
    [] p = "journal_id" -> {Omitted, "[]", "['A']", "['A', 'B']", "['B', 'A']"}
    [] p = "options" -> {Omitted, "Person"}
    [] p = "applicant_id" -> {Omitted, "0"}
    [] p = "last_name" -> {Omitted, "", "O Neil"}
    [] p = "count" -> {Omitted, "", "20"}
    [] p = "startpage" -> {Omitted, "0", "1"}
    [] p = "effective_date" -> {Omitted, "2024-01-15"}
    [] p \in {"is_active", "include_obsolete", "include_details"} ->
         {Omitted, None, PyTrue, PyFalse}
    [] p = "entity_type" -> {"department"}
    [] p = "download_id" -> {Omitted, "dl1"}
    [] p = "year" /\ tl = "download_w2" -> {"2024"}
    [] p = "year" /\ tl # "download_w2" -> {Omitted, "2024"}
    [] p = "start_date" -> {"2024-01-01"}
    [] p = "end_date" -> {"2024-01-31"}
    [] p \in {"apply_date", "batch_type", "batch_id", "sort"} -> {Omitted}
\* the argument records of a call of tl: one value for each parameter in ps
RECURSIVE SerArgsOver(_, _)
SerArgsOver(tl, ps) ==
  IF ps = {} THEN {<<>>}
  ELSE LET p == CHOOSE q \in ps : TRUE
       IN {(p :> v) @@ f : v \in SerArgValues(tl, p), f \in SerArgsOver(tl, ps \ {p})}
SerCallArgs(tl) == SerArgsOver(tl, Params(tl))

\* a page of results that says there are more
FirstPage == PyDict({<<"total", "50">>, <<"count", "20">>, <<"startpage", "0">>})
SerAuthResponses == {AuthOk("abc123"), BadPassword}
SerEndpointResponses == {UrlopenBody(TRUE, Employees), UrlopenBody(TRUE, FirstPage)}

InitSer ==
  /\ Init
  /\ env["PRISMHR_USERNAME"] = "wsuser" /\ env["PRISMHR_PASSWORD"] = "s3cret"
  /\ env["PRISMHR_PEO_ID"] = "624*D" /\ env["PRISMHR_BASE_URL"] = None

NextSer ==
  \/ \E i \in Procs, tl \in SerTools : \E a \in SerCallArgs(tl) : Quiet(i) /\ Invoke(i, tl, a)
  \/ \E i \in Procs, resp \in SerAuthResponses : AuthReturn(i, resp)
  \/ \E i \in Procs, resp \in SerEndpointResponses : EndpointReturn(i, resp)
  \/ \E i \in Procs : Return(i)

SpecSer == InitSer /\ [][NextSer]_vars

(***************************************************************************)
(* The relays with hand-indexed keys.  reprint_1099 is called with every   *)
(* kind of list; get_gl_detail_download with at most two of its nine list  *)
(* parameters supplied, the other parameters left out.                     *)
(***************************************************************************)
IdxListParams ==
  {"client_id", "employer_id", "gl_account", "gl_cost_center", "gl_detail_code_type",
   "gl_detail_code", "voucher_id", "check_number", "employee_id"}
IdxListValues == {Omitted, None, "[]", "['A']", "['A', 'B']", "['B', 'A']"}
IdxCallArgs(tl) ==
  IF tl = "reprint_1099"
    THEN {[client_id |-> "132", employee_id |-> v, year |-> y] :
            v \in IdxListValues \ {None}, y \in {"2024", Omitted}}
    ELSE LET none == [p \in Params(tl) |-> Omitted]
         IN {[[[none EXCEPT ![p] = v] EXCEPT ![q] = w] EXCEPT !["batch_id"] = b] :
               p \in IdxListParams, q \in IdxListParams,
               v \in IdxListValues, w \in {Omitted, "['A']"},
               b \in {Omitted, "B1"}}

NextIdx ==
  \/ \E i \in Procs, tl \in IdxTools : \E a \in IdxCallArgs(tl) : Quiet(i) /\ Invoke(i, tl, a)
  \/ \E i \in Procs, resp \in SerAuthResponses : AuthReturn(i, resp)
  \/ \E i \in Procs, resp \in SerEndpointResponses : EndpointReturn(i, resp)
  \/ \E i \in Procs : Return(i)

SpecIdx == InitSer /\ [][NextIdx]_vars

(***************************************************************************)
(* Properties.                                                             *)
(***************************************************************************)
\* the body of the relay was entered (the arguments bound to the signature)
Entered(i) == pc[i] # "idle" /\ how[i] # "rejected"
Gets(i) == {n \in 1..Len(reqs[i]) : reqs[i][n].method = "GET"}
Posts(i) == {n \in 1..Len(reqs[i]) : reqs[i][n].method = "POST"}
CredentialsPresent(i) ==
  \A f \in {"username", "password", "peo_id"} : locals[i][f] \notin {None, ""}
IsErrorDict(v) == v.t = "dict" /\ \E p \in v.d : p[1] = "error"
\* an authentication response that carries errorCode "0" and a usable sessionId
GoodAuth(r) ==
  /\ ~r.raised /\ r.wellformed /\ r.value.t = "dict"
  /\ <<"errorCode", "0">> \in r.value.d
  /\ \E p \in r.value.d : p[1] = "sessionId" /\ p[2] \notin {None, ""}
\* an upstream error payload: a JSON object whose errorCode is not "0"
IsErrorPayload(v) == v.t = "dict" /\ \E p \in v.d : p[1] = "errorCode" /\ p[2] # "0"
FailedText(i) ==
  CASE tool[i] = "get_employee_list" -> "Get employee list failed: "
    [] tool[i] = "get_employee" -> "Get employee failed: "

\* C1: when credentials are present and authenticate_prismhr hands back no
\* token (as it does for the response {"errorCode": "1", ...}), the relay
\* returns exactly {"error": "Authentication failed"} and has issued no
\* endpoint request.
C1_AuthFailureStopsRelay ==
  \A i \in Procs :
    /\ (Entered(i) /\ CredentialsPresent(i) /\ authOut[i] = "returned" /\ session_id[i] = None)
         => /\ pc[i] = "done" /\ how[i] = "returned"
            /\ result[i] = [t |-> "dict", d |-> {<<"error", "Authentication failed">>}]
            /\ Gets(i) = {}
    /\ (authResp[i] # NoResponse /\ ~authResp[i].raised /\ authResp[i].wellformed
          /\ authResp[i].value.t = "dict" /\ <<"errorCode", "1">> \in authResp[i].value.d)
         => authOut[i] = "returned" /\ session_id[i] = None
C1_Witness ==
  \E i \in Procs :
    /\ pc[i] = "done" /\ CredentialsPresent(i)
    /\ <<"errorCode", "1">> \in authResp[i].value.d
    /\ result[i] = [t |-> "dict", d |-> {<<"error", "Authentication failed">>}]
    /\ Len(reqs[i]) = 1

\* C2: when any of the three credentials is absent at call time, the relay
\* returns exactly {"error": "Missing PrismHR credentials"} and issues no
\* HTTP request at all.
C2_MissingCredentialsNoIO ==
  \A i \in Procs :
    (Entered(i) /\ \E f \in {"username", "password", "peo_id"} : locals[i][f] = None)
      => /\ pc[i] = "done" /\ how[i] = "returned"
         /\ result[i] = [t |-> "dict", d |-> {<<"error", "Missing PrismHR credentials">>}]
         /\ reqs[i] = <<>>
         /\ authOut[i] = "none"
C2_Witness ==
  \E i \in Procs :
    /\ pc[i] = "done" /\ how[i] = "returned"
    /\ locals[i].username = "wsuser" /\ locals[i].password = "s3cret"
    /\ locals[i].peo_id = None
    /\ reqs[i] = <<>>

\* C3: no invocation that entered a relay ends by raising to its caller; it
\* ends by returning, and whenever something failed (credentials missing,
\* base URL unusable, authentication not granted, endpoint urlopen raising,
\* endpoint body not JSON) the returned value is a dict with an "error" key.
C3_Failed(i) ==
  /\ Entered(i) /\ pc[i] = "done"
  /\ \/ ~CredentialsPresent(i)
     \/ locals[i].base_url = NoSchemeBaseUrl
     \/ (authResp[i] # NoResponse /\ ~GoodAuth(authResp[i]))
     \/ epResp[i].raised
     \/ (epResp[i] # NoResponse /\ ~epResp[i].wellformed)
C4_BodyVerbatim ==
  \A i \in Procs :
    /\ (pc[i] = "done" /\ epResp[i] # NoResponse /\ ~epResp[i].raised /\ epResp[i].wellformed)
         => how[i] = "returned" /\ result[i] = epResp[i].value
    /\ (pc[i] = "done" /\ tool[i] = "get_employee_list"
          /\ authResp[i].value = [t |-> "dict", d |-> {<<"errorCode", "0">>, <<"sessionId", "abc123">>}]
          /\ epResp[i] # NoResponse /\ ~epResp[i].raised /\ epResp[i].wellformed
          /\ epResp[i].value = [t |-> "dict", d |-> {<<"employees", "[]">>}])
         => result[i] = [t |-> "dict", d |-> {<<"employees", "[]">>}]
C4_Witness ==
  \E i \in Procs :
    /\ pc[i] = "done" /\ tool[i] = "get_employee_list" /\ passed[i]["client_id"] = "132"
    /\ session_id[i] = "abc123"
    /\ ~epResp[i].raised /\ epResp[i].wellformed
    /\ result[i] = [t |-> "dict", d |-> {<<"employees", "[]">>}]

\* C5 (as claimed): an upstream error payload received on the endpoint
\* request always ends in an {"error": ...} result.
C5_ErrorPayloadConverted ==
  \A i \in Procs :
    (pc[i] = "done" /\ epResp[i] # NoResponse /\ IsErrorPayload(epResp[i].value))
      => IsErrorDict(result[i])
\* C5 (amended): an upstream error payload is converted into
\* {"error": "<name> failed: <exception text>"} when it arrives with an HTTP
\* error status (urlopen raises); when it arrives in a successful HTTP
\* response it is returned to the caller unchanged.
C5_ErrorPayloadByStatus ==
  \A i \in Procs :
    (pc[i] = "done" /\ epResp[i] # NoResponse /\ IsErrorPayload(epResp[i].value))
      => IF epResp[i].raised
           THEN result[i] = [t |-> "dict", d |-> {<<"error", FailedText(i) \o epResp[i].text>>}]
           ELSE result[i] = epResp[i].value /\ ~IsErrorDict(result[i])
C5_Witness ==
  \E i \in Procs :
    /\ pc[i] = "done" /\ epResp[i].raised /\ IsErrorPayload(epResp[i].value)
    /\ result[i] = [t |-> "dict", d |-> {<<"error", "Get employee failed: HTTP Error 400: Bad Request">>}]

\* the caller left out a required parameter of the tool it called
OmittedRequired(i) ==
  /\ pc[i] # "idle"
  /\ \E p \in DOMAIN passed[i] \cap {"client_id", "employee_id"} : passed[i][p] = Omitted
\* the upstream keys of the required parameters of the tool frame i runs
RequiredKeys(i) ==
  CASE tool[i] = "get_employee_list" -> {"clientId"}
    [] tool[i] = "get_employee" -> {"clientId", "employeeId"}

\* C6 (as claimed): an invocation that omits a required parameter returns an
\* error result, having issued at most the authentication request.
C6_OmittedReturnsError ==
  \A i \in Procs :
    OmittedRequired(i) => how[i] = "returned" /\ IsErrorDict(result[i]) /\ Gets(i) = {}
\* C6 (amended): an invocation that omits a required parameter is rejected
\* when its arguments are bound to the signature, before the relay body is
\* entered: the relay returns no value of its own and no HTTP request at all
\* is issued, not even the authentication request; and every endpoint request
\* that is issued carries each required key exactly once.
C6_OmittedRejectedBeforeBody ==
  \A i \in Procs :
    /\ OmittedRequired(i)
         => /\ pc[i] = "done" /\ how[i] = "rejected"
            /\ result[i] = NoValue /\ args[i] = NoArgs /\ locals[i] = NoLocals
            /\ reqs[i] = <<>> /\ authOut[i] = "none"
    /\ \A n \in Gets(i) : \A k \in RequiredKeys(i) :
         Cardinality({m \in 1..Len(reqs[i][n].query) : reqs[i][n].query[m][1] = k}) = 1
C6_Witness ==
  \E i \in Procs :
    /\ tool[i] = "get_employee" /\ passed[i]["client_id"] = "132"
    /\ passed[i]["employee_id"] = Omitted
    /\ how[i] = "rejected"
    /\ \A n \in EnvNames \ {"PRISMHR_BASE_URL"} : env[n] \notin {None, ""}

\* C7: authenticate_prismhr takes its success branch exactly when the parsed
\* response is an object whose errorCode is the string "0", and what it then
\* returns is that response's sessionId field (None when the field is
\* absent); in every other case it returns None.
C7_SuccessIffErrorCodeZero ==
  \A i \in Procs :
    authOut[i] = "returned" =>
      LET r == authResp[i]
          ok == ~r.raised /\ r.wellformed /\ r.value.t = "dict"
                /\ <<"errorCode", "0">> \in r.value.d
      IN IF ok
           THEN \/ <<"sessionId", session_id[i]>> \in r.value.d
                \/ (session_id[i] = None /\ ~\E p \in r.value.d : p[1] = "sessionId")
           ELSE session_id[i] = None
C7_Witness ==
  \E i \in Procs :
    /\ authOut[i] = "returned" /\ session_id[i] = "abc123"
    /\ authResp[i].value = [t |-> "dict", d |-> {<<"errorCode", "0">>, <<"sessionId", "abc123">>}]

\* C8: authenticate_prismhr never raises; whenever the response is not a
\* success (errorCode other than "0" or missing, urlopen raising, a body that
\* is not JSON or not an object) it returns None.
C8_AuthenticateNeverRaises ==
  \A i \in Procs :
    /\ authOut[i] # "raised"
    /\ (/\ authOut[i] = "returned"
        /\ \/ authResp[i].raised \/ ~authResp[i].wellformed \/ authResp[i].value.t # "dict"
           \/ <<"errorCode", "0">> \notin authResp[i].value.d)
         => session_id[i] = None

\* C9 (as claimed): every invocation that has credentials has issued exactly
\* one authentication POST, so the POSTs number as many as those invocations.
C9_OnePostPerCall == authPosts = calls
\* C9 (amended): every invocation that has credentials calls the
\* authenticator exactly once, and that call issues exactly one POST when the
\* base URL has a scheme and none when it has not; no other step of any
\* invocation issues an authentication POST (no retry, no cached token), so n
\* invocations with credentials and a usable base URL produce exactly n POSTs.
C9_OnePostPerUsableCall ==
  /\ [](\A i \in Procs :
          (Entered(i) /\ CredentialsPresent(i))
            => /\ Cardinality(Posts(i)) =
                    (IF locals[i].base_url = NoSchemeBaseUrl THEN 0 ELSE 1)
               /\ Posts(i) \subseteq {1}
               /\ authOut[i] = "none" <=> pc[i] = "auth")
  /\ [][/\ calls' = calls + 1 =>
             authPosts' = authPosts +
               (IF env["PRISMHR_BASE_URL"] = NoSchemeBaseUrl THEN 0 ELSE 1)
        /\ calls' = calls => authPosts' = authPosts]_vars
C9_Witness ==
  /\ calls = 2 /\ authPosts = 2
  /\ \E i \in Procs : pc[i] = "auth" /\ Len(reqs[i]) = 1

\* C10: under any interleaving, the token in the sessionId header of a
\* frame's endpoint request is the one its own authentication response
\* carried and its own local holds; a frame that has not authenticated yet
\* holds no token, and none is left once the frame is gone.
C10_TokenIsOwn ==
  \A i \in Procs :
    /\ \A n \in Gets(i) :
         /\ {h \in reqs[i][n].headers : h[1] = "sessionId"} = {<<"sessionId", session_id[i]>>}
         /\ <<"sessionId", session_id[i]>> \in authResp[i].value.d
         /\ n = 2
    /\ pc[i] \in {"idle", "auth"} => session_id[i] = None
    /\ pc[i] = "endpoint" => Gets(i) = {2}
C10_Witness ==
  /\ pc[1] = "endpoint" /\ pc[2] = "endpoint"
  /\ session_id[1] = "abc123" /\ session_id[2] = "xyz789"
  /\ \E h \in reqs[2][2].headers : h = <<"sessionId", "xyz789">>

\* C11 (as claimed): every invocation that entered a relay and has ended has
\* performed exactly two blocking HTTP operations.
C11_ExactlyTwoBlocking ==
  \A i \in Procs : (Entered(i) /\ pc[i] = "done") => Len(reqs[i]) = 2
\* C11 (amended): an invocation performs at most two blocking HTTP
\* operations, the authentication POST first and the endpoint GET second, the
\* GET only once the authentication response has been received; each is
\* issued once with a 30-second timeout and never retried, whatever it ends
\* in.  It performs both when credentials are present, the base URL has a
\* scheme and authentication yields a token; only the POST when
\* authentication yields no token; none when a credential is missing or the
\* base URL has no scheme.
C11_AtMostTwoInOrder ==
  /\ [](\A i \in Procs :
          /\ Len(reqs[i]) <= 2
          /\ \A n \in 1..Len(reqs[i]) : reqs[i][n].timeout = 30
          /\ Posts(i) \subseteq {1} /\ Gets(i) \subseteq {2}
          /\ Gets(i) # {} => (Posts(i) = {1} /\ authResp[i] # NoResponse)
          /\ pc[i] = "auth" => Len(reqs[i]) = 1
          /\ pc[i] = "endpoint" => Len(reqs[i]) = 2
          /\ (Entered(i) /\ pc[i] = "done") =>
               Len(reqs[i]) =
                 (IF ~CredentialsPresent(i) \/ locals[i].base_url = NoSchemeBaseUrl THEN 0
                  ELSE IF session_id[i] \in {None, ""} THEN 1 ELSE 2))
  /\ [][\A i \in Procs :
          Len(reqs'[i]) > Len(reqs[i]) =>
            /\ Len(reqs'[i]) = Len(reqs[i]) + 1
            /\ \/ /\ pc[i] = "idle" /\ pc'[i] = "auth" /\ reqs[i] = <<>>
                  /\ reqs'[i][1].method = "POST"
               \/ /\ pc[i] = "auth" /\ pc'[i] = "endpoint" /\ Len(reqs[i]) = 1
                  /\ authResp[i] = NoResponse /\ authResp'[i] # NoResponse
                  /\ reqs'[i][1] = reqs[i][1] /\ reqs'[i][2].method = "GET"]_vars
C11_Witness ==
  \E i \in Procs :
    /\ pc[i] = "done" /\ epResp[i].raised /\ epResp[i].etype = "TimeoutError"
    /\ Len(reqs[i]) = 2 /\ reqs[i][1].method = "POST" /\ reqs[i][2].method = "GET"
    /\ reqs[i][1].timeout = 30 /\ reqs[i][2].timeout = 30

\* the upstream key a relay stores a parameter under
UpstreamKey(p) ==
  CASE p = "client_id" -> "clientId"
    [] p = "employee_id" -> "employeeId"
    [] p = "journal_id" -> "journalId"
    [] p = "options" -> "options"
    [] p = "applicant_id" -> "applicantId"
    [] p = "apply_date" -> "applyDate"
    [] p = "last_name" -> "lastName"
    [] p = "count" -> "count"
    [] p = "startpage" -> "startpage"
    [] p = "effective_date" -> "effectiveDate"
    [] p = "is_active" -> "isActive"
    [] p = "entity_type" -> "entityType"
    [] p = "include_obsolete" -> "includeObsolete"
    [] p = "download_id" -> "downloadId"
    [] p = "year" -> "year"
    [] p = "batch_type" -> "batchType"
    [] p = "batch_id" -> "batchId"
    [] p = "include_details" -> "includeDetails"
    [] p = "sort" -> "sort"
    [] p = "start_date" -> "startDate"
    [] p = "end_date" -> "endDate"
    [] p = "status_class" -> "statusClass"
    [] p = "type_class" -> "typeClass"
\* the values, in order, that the query string q carries under key k
ValuesUnder(q, k) == SelectSeq(q, LAMBDA pair : pair[1] = k)
\* the query string of the endpoint request of frame i
Query(i) == reqs[i][2].query
BoolParams == {"is_active", "include_obsolete", "include_details"}
ListParams(tl) ==
  CASE tl \in {"get_absence_journal"} -> {"journal_id"}
    [] tl = "download_w2" -> {"employee_id"}
    [] tl = "get_ar_transaction_report" -> {"client_id"}
    [] OTHER -> {}

\* C12: whenever a relay has issued its endpoint request, no optional
\* parameter the caller omitted (or passed as None) has its upstream key in
\* the query string of that request.
C12_OmittedOptionalAbsent ==
  \A i \in Procs :
    Gets(i) # {} =>
      \A p \in OptionalParams(tool[i]) :
        passed[i][p] \in {Omitted, None} => ValuesUnder(Query(i), UpstreamKey(p)) = <<>>
C12_Witness ==
  \E i \in Procs :
    /\ tool[i] = "get_retirement_plan" /\ Gets(i) = {2}
    /\ passed[i]["effective_date"] = Omitted /\ passed[i]["is_active"] = Omitted
    /\ Query(i) = << <<"clientId", "132">>, <<"employeeId", "J00809">> >>

\* C13: whenever a relay that declares a boolean parameter has issued its
\* endpoint request and the caller supplied True or False, the key of that
\* parameter is in the query string exactly once, with the value "true" or
\* "false"; a supplied False is not dropped.
C13_BooleansLowercase ==
  \A i \in Procs :
    Gets(i) # {} =>
      \A p \in OptionalParams(tool[i]) \cap BoolParams :
        passed[i][p] \in {PyTrue, PyFalse} =>
          ValuesUnder(Query(i), UpstreamKey(p)) =
            << <<UpstreamKey(p), IF passed[i][p] = PyTrue THEN "true" ELSE "false">> >>

\* the optional parameters of tl that are declared Optional[str]
OptionalStrings(tl) == (OptionalParams(tl) \ BoolParams) \ ListParams(tl)

C15_ArraysRepeatedKey ==
  \A i \in Procs :
    Gets(i) # {} =>
      \A p \in ListParams(tool[i]) :
        IsList(passed[i][p]) =>
          ValuesUnder(Query(i), UpstreamKey(p)) =
            [n \in 1..Len(ListItems(passed[i][p])) |->
               <<UpstreamKey(p), QuotePlus(ListItems(passed[i][p])[n])>>]

\* C16 (as claimed): every required parameter has its key in the query
\* string exactly once, with the caller's value.
C16_RequiredOnce ==
  \A i \in Procs :
    Gets(i) # {} =>
      \A p \in RequiredParams(tool[i]) :
        ValuesUnder(Query(i), UpstreamKey(p)) =
          << <<UpstreamKey(p), QuotePlus(Str(passed[i][p]))>> >>
\* C16 (amended): every required parameter that is not a list has its key in
\* the query string exactly once, with the caller's value (URL-quoted),
\* whatever that value is (the empty string and None included) and whichever
\* optional parameters are supplied; a required list parameter is serialized
\* per element instead, so its key appears as many times as the relay's
\* list handling yields, which is not once for an empty or a longer list.
C16_RequiredScalarOnce ==
  \A i \in Procs :
    Gets(i) # {} =>
      \A p \in RequiredParams(tool[i]) \ ListParams(tool[i]) :
        ValuesUnder(Query(i), UpstreamKey(p)) =
          << <<UpstreamKey(p), QuotePlus(Str(passed[i][p]))>> >>
C16_Witness ==
  \E i \in Procs :
    /\ tool[i] = "get_employee" /\ Gets(i) = {2}
    /\ passed[i]["employee_id"] = "" /\ passed[i]["options"] = "Person"
    /\ Query(i) = << <<"clientId", "132">>, <<"employeeId", "">>, <<"options", "Person">> >>

\* the fixed upstream path of the tool frame i runs
EndpointPath(i) ==
  CASE tool[i] = "get_employee_list" -> "/services/rest/employee/v1/getEmployeeList"
    [] tool[i] = "get_employee" -> "/services/rest/employee/v1/getEmployee"

\* C17: every endpoint request is a GET without a body, to the endpoint's
\* fixed path under the base URL read at call time, whose headers are exactly
\* sessionId (the frame's token) and Accept: application/json; the token is
\* neither a key nor a value of the query string; and the only request with
\* a body is the authentication POST, the first request of its frame.
C17_GetWithHeaderToken ==
  \A i \in Procs : \A n \in 1..Len(reqs[i]) :
    LET r == reqs[i][n]
    IN /\ n = 2 =>
            /\ r.method = "GET" /\ r.data = <<>>
            /\ r.url = locals[i].base_url \o EndpointPath(i)
            /\ r.headers = {<<"sessionId", session_id[i]>>, <<"Accept", "application/json">>}
            /\ session_id[i] \notin {None, ""}
            /\ \A m \in 1..Len(r.query) :
                 r.query[m][1] # "sessionId" /\ r.query[m][2] # session_id[i]
       /\ r.data # <<>> =>
            /\ n = 1 /\ r.method = "POST"
            /\ r.url = locals[i].base_url \o "/services/rest/login/v1/createPeoSession"
            /\ r.query = <<>>
       /\ n \in {1, 2}
C17_Witness ==
  \E i \in Procs :
    /\ pc[i] = "endpoint" /\ tool[i] = "get_employee" /\ session_id[i] = "xyz789"
    /\ reqs[i][2].method = "GET" /\ reqs[i][2].data = <<>>
    /\ <<"sessionId", "xyz789">> \in reqs[i][2].headers
    /\ reqs[i][2].query = << <<"clientId", "132">>, <<"employeeId", "J00809">> >>
    /\ reqs[i][1].data # <<>>

OwnToken(i) ==
  IF GoodAuth(authResp[i])
    THEN (CHOOSE p \in authResp[i].value.d : p[1] = "sessionId")[2]
    ELSE None
OwnPair(i, p) ==
  IF passed[i][p] \in {Omitted, None, ""} THEN <<>>
  ELSE << <<UpstreamKey(p), QuotePlus(passed[i][p])>> >>
OwnQuery(i) ==
  CASE tool[i] = "get_employee_list" ->
         << <<"clientId", QuotePlus(passed[i]["client_id"])>> >>
         \o OwnPair(i, "status_class") \o OwnPair(i, "type_class")
    [] tool[i] = "get_employee" ->
         << <<"clientId", QuotePlus(passed[i]["client_id"])>>,
            <<"employeeId", QuotePlus(passed[i]["employee_id"])>> >>
         \o OwnPair(i, "options")
OwnPost(i) ==
  [method |-> "POST", url |-> locals[i].base_url \o "/services/rest/login/v1/createPeoSession",
   query |-> <<>>,
   data |-> << <<"username", QuotePlus(locals[i].username)>>,
               <<"password", QuotePlus(locals[i].password)>>,
               <<"peoId", QuotePlus(locals[i].peo_id)>> >>,
   headers |-> {<<"Content-Type", "application/x-www-form-urlencoded">>,
                <<"Accept", "application/json">>},
   timeout |-> 30]
OwnGet(i) ==
  [method |-> "GET", url |-> locals[i].base_url \o EndpointPath(i), query |-> OwnQuery(i),
   data |-> <<>>,
   headers |-> {<<"sessionId", OwnToken(i)>>, <<"Accept", "application/json">>},
   timeout |-> 30]
OwnRequests(i) ==
  IF OmittedRequired(i) \/ ~CredentialsPresent(i) \/ locals[i].base_url = NoSchemeBaseUrl
    THEN <<>>
  ELSE IF OwnToken(i) = None THEN <<OwnPost(i)>>
  ELSE <<OwnPost(i), OwnGet(i)>>
OwnResult(i) ==
  IF OmittedRequired(i) THEN NoValue
  ELSE IF ~CredentialsPresent(i)
    THEN [t |-> "dict", d |-> {<<"error", "Missing PrismHR credentials">>}]
  ELSE IF locals[i].base_url = NoSchemeBaseUrl
    THEN [t |-> "dict", d |-> {<<"error", FailedText(i) \o "unknown url type: '"
            \o locals[i].base_url \o "/services/rest/login/v1/createPeoSession'">>}]
  ELSE IF authResp[i] = NoResponse THEN NoValue
  ELSE IF OwnToken(i) = None
    THEN [t |-> "dict", d |-> {<<"error", "Authentication failed">>}]
  ELSE IF epResp[i] = NoResponse THEN NoValue
  ELSE IF epResp[i].raised
    THEN [t |-> "dict", d |-> {<<"error", FailedText(i) \o epResp[i].text>>}]
  ELSE IF ~epResp[i].wellformed
    THEN [t |-> "dict", d |-> {<<"error", FailedText(i)
            \o "Expecting value: line 1 column 1 (char 0)">>}]
  ELSE epResp[i].value
SameInputs(i, j) ==
  /\ tool[i] = tool[j] /\ passed[i] = passed[j] /\ locals[i] = locals[j]
  /\ authResp[i] = authResp[j] /\ epResp[i] = epResp[j]

\* C19: under any interleaving and after any earlier invocations, the
\* requests a frame has issued and the result it holds are those its own
\* arguments, the configuration it read and the responses to its own
\* requests determine; so two frames that agree on these agree on their
\* requests, their result and how far they have got.
C19_OwnInputsOnly ==
  /\ \A i \in Procs :
       pc[i] # "idle" => reqs[i] = OwnRequests(i) /\ result[i] = OwnResult(i)
  /\ \A i, j \in Procs :
       SameInputs(i, j) =>
         reqs[i] = reqs[j] /\ result[i] = result[j] /\ how[i] = how[j] /\ pc[i] = pc[j]
C19_Witness ==
  /\ pc[1] = "done" /\ pc[2] = "done" /\ calls = 2
  /\ tool[1] = "get_employee" /\ SameInputs(1, 2)
  /\ Len(reqs[1]) = 2 /\ reqs[1] = reqs[2]
  /\ result[1] = [t |-> "dict", d |-> {<<"employees", "[]">>}] /\ result[2] = result[1]

\* the configuration an invocation made now would read
ConfigNow ==
  [username |-> env["PRISMHR_USERNAME"], password |-> env["PRISMHR_PASSWORD"],
   peo_id |-> env["PRISMHR_PEO_ID"],
   base_url |-> IF env["PRISMHR_BASE_URL"] = None
                  THEN "https://salesdemoapi.prismhr.com/prismhr-api"
                  ELSE env["PRISMHR_BASE_URL"]]

\* C20: every invocation works with the environment as it is when the call
\* is made, whatever it was during earlier invocations: its locals are the
\* values the environment holds then; if one of the three credentials is
\* missing then, it returns the missing-credentials error without a request;
\* otherwise its authentication POST carries those credentials and goes to
\* that base URL.
C20_ConfigReadAtCall ==
  [][\A i \in Procs :
       (pc[i] = "idle" /\ pc'[i] # "idle" /\ how'[i] # "rejected") =>
         /\ locals'[i] = ConfigNow
         /\ IF \E f \in {"username", "password", "peo_id"} : ConfigNow[f] \in {None, ""}
              THEN /\ pc'[i] = "done" /\ reqs'[i] = <<>>
                   /\ result'[i] = [t |-> "dict", d |-> {<<"error", "Missing PrismHR credentials">>}]
              ELSE /\ calls' = calls + 1
                   /\ ConfigNow.base_url # NoSchemeBaseUrl =>
                        /\ pc'[i] = "auth" /\ Len(reqs'[i]) = 1
                        /\ reqs'[i][1].url =
                             ConfigNow.base_url \o "/services/rest/login/v1/createPeoSession"
                        /\ reqs'[i][1].data =
                             << <<"username", QuotePlus(ConfigNow.username)>>,
                                <<"password", QuotePlus(ConfigNow.password)>>,
                                <<"peoId", QuotePlus(ConfigNow.peo_id)>> >>]_vars
\* an invocation with all credentials has been served, a credential has been
\* removed since, and the invocation made after that reports it missing
C20_Witness ==
  /\ calls = 1 /\ authPosts = 1
  /\ env["PRISMHR_USERNAME"] = None
  /\ \E i \in Procs :
       /\ pc[i] = "done" /\ how[i] = "returned" /\ locals[i].username = None
       /\ locals[i].password = "s3cret" /\ locals[i].peo_id = "624*D"
       /\ reqs[i] = <<>>
       /\ result[i] = [t |-> "dict", d |-> {<<"error", "Missing PrismHR credentials">>}]

\* C21: the requests of one invocation go to the same base URL, the value
\* PRISMHR_BASE_URL has at the call when it is set and
\* https://salesdemoapi.prismhr.com/prismhr-api when it is unset: the
\* authentication POST to that base plus the login path, the endpoint GET to
\* that base plus the endpoint's path.
C21_SameBaseUrl ==
  \A i \in Procs :
    LET base == IF env["PRISMHR_BASE_URL"] = None
                  THEN "https://salesdemoapi.prismhr.com/prismhr-api"
                  ELSE env["PRISMHR_BASE_URL"]
    IN /\ Len(reqs[i]) >= 1 =>
            reqs[i][1].url = base \o "/services/rest/login/v1/createPeoSession"
       /\ Len(reqs[i]) >= 2 => reqs[i][2].url = base \o EndpointPath(i)
C21_Witness ==
  \E i \in Procs :
    /\ pc[i] = "endpoint" /\ tool[i] = "get_employee_list"
    /\ env["PRISMHR_BASE_URL"] = "https://api.prismhr.example/prismhr-api"
    /\ reqs[i][1].url =
         "https://api.prismhr.example/prismhr-api/services/rest/login/v1/createPeoSession"
    /\ reqs[i][2].url =
         "https://api.prismhr.example/prismhr-api/services/rest/employee/v1/getEmployeeList"

\* C22: provided every HTTP request eventually delivers a response or fails,
\* every invocation that has been made eventually holds its result: an
\* invocation is never anywhere but done or blocked in one of its two
\* requests, and from either it reaches done.
C22_RunsToCompletion ==
  /\ [](\A i \in Procs : pc[i] \in {"idle", "auth", "endpoint", "done"})
  /\ \A i \in Procs : (pc[i] # "idle") ~> (pc[i] = "done")
C22_Witness ==
  \E i \in Procs :
    /\ pc[i] = "done" /\ how[i] = "returned"
    /\ authResp[i].raised /\ authResp[i].etype = "TimeoutError"
    /\ result[i] = [t |-> "dict", d |-> {<<"error", "Authentication failed">>}]

\* the frames that run test_connection, of either server
IsTestConnection(i) == tool[i] \in {"test_connection", "small.test_connection"}
\* the value under key k of the dict the frame returned
Field(i, k) == {p[2] : p \in {q \in result[i].d : q[1] = k}}

\* C23: test_connection called while a credential is missing issues no HTTP
\* request and returns a dict whose success is False, that has an error,
\* and whose credentials_status says of each of username, password and
\* peo_id exactly whether it is present.
C23_TestConnectionMissing ==
  \A i \in Procs :
    (IsTestConnection(i) /\ Entered(i) /\ ~CredentialsPresent(i)) =>
      /\ reqs[i] = <<>>
      /\ pc[i] = "done" /\ how[i] = "returned" /\ result[i].t = "dict"
      /\ Field(i, "success") = {"<False>"}
      /\ \E p \in result[i].d : p[1] = "error" /\ p[2] # ""
      /\ \A f \in {"username", "password", "peo_id"} :
           Field(i, "credentials_status." \o f) =
             {IF locals[i][f] \in {None, ""} THEN "<False>" ELSE "<True>"}

\* test_connection has returned with the username and the password set and
\* the PEO id set to the empty string
C23_Witness ==
  /\ tool[FullFrame] = "test_connection" /\ pc[FullFrame] = "done"
  /\ locals[FullFrame].username = "wsuser" /\ locals[FullFrame].peo_id = ""
  /\ reqs[FullFrame] = <<>>
  /\ <<"credentials_status.username", "<True>">> \in result[FullFrame].d
  /\ <<"credentials_status.peo_id", "<False>">> \in result[FullFrame].d

\* the invocation of frame i failed in its authentication phase: it had
\* credentials, called the authenticator, and ended without a token
FailedInAuthentication(i) ==
  /\ Entered(i) /\ CredentialsPresent(i) /\ pc[i] = "done"
  /\ epResp[i] = NoResponse /\ Gets(i) = {}
\* the invocation of frame i failed in its endpoint request
FailedInEndpoint(i) ==
  /\ pc[i] = "done" /\ epResp[i] # NoResponse
  /\ (epResp[i].raised \/ ~epResp[i].wellformed)

\* C24: the error message identifies the failing phase.  An invocation that
\* fails while authenticating returns exactly {"error": "Authentication
\* failed"}; one that fails in the endpoint request after a successful
\* authentication returns {"error": "<endpoint name> failed: <exception
\* text>"}, having issued two requests and no more, and nothing else is
\* returned with it.
C24_ErrorIdentifiesPhase ==
  \A i \in Procs :
    /\ FailedInAuthentication(i) =>
         result[i] = [t |-> "dict", d |-> {<<"error", "Authentication failed">>}]
    /\ FailedInEndpoint(i) =>
         /\ GoodAuth(authResp[i])
         /\ result[i] = [t |-> "dict", d |-> {<<"error", FailedText(i) \o
              (IF epResp[i].raised THEN epResp[i].text
               ELSE "Expecting value: line 1 column 1 (char 0)")>>}]
         /\ Len(reqs[i]) = 2

\* the upstream name under which a list parameter is sent
IdxKey(p) ==
  CASE p = "client_id" -> "clientId"
    [] p = "employer_id" -> "employerId"
    [] p = "gl_account" -> "glAccount"
    [] p = "gl_cost_center" -> "glCostCenter"
    [] p = "gl_detail_code_type" -> "glDetailCodeType"
    [] p = "gl_detail_code" -> "glDetailCode"
    [] p = "voucher_id" -> "voucherId"
    [] p = "check_number" -> "checkNumber"
    [] p = "employee_id" -> "employeeId"
\* the list parameters of the tool frame i runs, and the elements the caller
\* passed for one of them
IdxLists(i) ==
  IF tool[i] = "reprint_1099" THEN {"employee_id"}
  ELSE {"client_id", "employer_id", "gl_account", "gl_cost_center", "gl_detail_code_type",
        "gl_detail_code", "voucher_id", "check_number", "employee_id"}
IdxElements(i, p) ==
  IF passed[i][p] \in {"<omitted>", "<None>"} THEN <<>> ELSE ListItems(passed[i][p])
\* the number of elements of all the lists the caller passed
RECURSIVE IdxTotal(_, _)
IdxTotal(i, ps) ==
  IF ps = {} THEN 0
  ELSE LET p == CHOOSE q \in ps : TRUE
       IN Len(IdxElements(i, p)) + IdxTotal(i, ps \ {p})
\* the scalar pairs of the endpoint request of frame i
IdxScalars(i) ==
  {n \in 1..Len(Query(i)) :
     Query(i)[n][1] \in {"clientId", "year", "downloadId", "batchId", "startDate", "endDate"}}

\* C25: in the endpoint request of reprint_1099 and get_gl_detail_download a
\* list of n elements gives exactly the n pairs key[0] .. key[n-1] (the
\* brackets percent-encoded by urlencode), key[m] carrying the m-th element
\* of the caller's list, and a list that is omitted, None or empty gives no
\* pair; the query holds nothing besides these and the scalar pairs.
C25_IndexedKeys ==
  \A i \in Procs :
    (tool[i] \in {"reprint_1099", "get_gl_detail_download"} /\ Gets(i) = {2}) =>
      /\ \A p \in IdxLists(i) : \A m \in 0..2 :
           {Query(i)[n][2] : n \in {k \in 1..Len(Query(i)) :
              Query(i)[k][1] = IdxKey(p) \o "%5B" \o ToString(m) \o "%5D"}}
             = IF m < Len(IdxElements(i, p)) THEN {IdxElements(i, p)[m + 1]} ELSE {}
      /\ Len(Query(i)) = Cardinality(IdxScalars(i)) + IdxTotal(i, IdxLists(i))

\* get_gl_detail_download(client_id=["A", "B"], employee_id=["A"]) has sent
\* clientId[0]=A, clientId[1]=B and employeeId[0]=A
C25_Witness ==
  \E i \in Procs :
    /\ pc[i] = "endpoint" /\ tool[i] = "get_gl_detail_download"
    /\ passed[i]["client_id"] = "['A', 'B']" /\ passed[i]["employee_id"] = "['A']"
    /\ Gets(i) = {2}
    /\ Query(i) = << <<"clientId%5B0%5D", "A">>, <<"clientId%5B1%5D", "B">>,
                     <<"employeeId%5B0%5D", "A">> >>

\* C26 (as claimed): test_connection with all credentials present issues
\* exactly one HTTP request, the authentication POST, and never an endpoint
\* request; it returns success True with the session_id and the resolved
\* base_url exactly when authentication yields a token, and success False
\* with an error otherwise.
C26_ExactlyOneRequest ==
  \A i \in Procs :
    (IsTestConnection(i) /\ Entered(i) /\ CredentialsPresent(i)) =>
      /\ Gets(i) = {}
      /\ Len(reqs[i]) = 1 /\ Posts(i) = {1}
      /\ pc[i] = "done" =>
           /\ how[i] = "returned" /\ result[i].t = "dict"
           /\ IF GoodAuth(authResp[i])
                THEN /\ Field(i, "success") = {"<True>"}
                     /\ \E sid \in Field(i, "session_id") :
                          sid # "" /\ <<"sessionId", sid>> \in authResp[i].value.d
                     /\ Field(i, "base_url") =
                          {IF env["PRISMHR_BASE_URL"] = None
                             THEN "https://salesdemoapi.prismhr.com/prismhr-api"
                             ELSE env["PRISMHR_BASE_URL"]}
                ELSE /\ Field(i, "success") = {"<False>"}
                     /\ \E p \in result[i].d : p[1] = "error" /\ p[2] # ""
                     /\ Field(i, "session_id") = {}

\* C26 (amended): test_connection with all credentials present issues exactly
\* one HTTP request, the authentication POST, when the base URL has a scheme
\* and none when PRISMHR_BASE_URL has no scheme, and never an endpoint
\* request; it returns success True with the session_id and the resolved
\* base_url exactly when authentication yields a token, and success False
\* with an error otherwise.
C26_OneRequestIfUsable ==
  \A i \in Procs :
    (IsTestConnection(i) /\ Entered(i) /\ CredentialsPresent(i)) =>
      /\ Gets(i) = {}
      /\ IF locals[i].base_url = "api.prismhr.example/prismhr-api"
           THEN reqs[i] = <<>>
           ELSE Len(reqs[i]) = 1 /\ Posts(i) = {1}
      /\ pc[i] = "done" =>
           /\ how[i] = "returned" /\ result[i].t = "dict"
           /\ IF GoodAuth(authResp[i])
                THEN /\ Field(i, "success") = {"<True>"}
                     /\ \E sid \in Field(i, "session_id") :
                          sid # "" /\ <<"sessionId", sid>> \in authResp[i].value.d
                     /\ Field(i, "base_url") =
                          {IF env["PRISMHR_BASE_URL"] = None
                             THEN "https://salesdemoapi.prismhr.com/prismhr-api"
                             ELSE env["PRISMHR_BASE_URL"]}
                ELSE /\ Field(i, "success") = {"<False>"}
                     /\ \E p \in result[i].d : p[1] = "error" /\ p[2] # ""
                     /\ Field(i, "session_id") = {}

\* test_connection has returned the token of its one request
C26_Witness ==
  /\ tool[FullFrame] = "test_connection" /\ pc[FullFrame] = "done"
  /\ Len(reqs[FullFrame]) = 1
  /\ result[FullFrame] = [t |-> "dict", d |->
       {<<"success", "<True>">>, <<"message", "Connection test successful">>,
        <<"session_id", "abc123">>,
        <<"base_url", "https://salesdemoapi.prismhr.com/prismhr-api">>}]

\* an authentication response with errorCode "0" whose sessionId is missing,
\* null or the empty string
ZeroWithoutSession(r) ==
  /\ ~r.raised /\ r.wellformed /\ r.value.t = "dict"
  /\ <<"errorCode", "0">> \in r.value.d
  /\ \A p \in r.value.d : p[1] = "sessionId" => p[2] \in {"<None>", ""}

\* C27: a relay whose authentication response has errorCode "0" but no
\* usable sessionId returns {"error": "Authentication failed"} and issues no
\* endpoint request; no endpoint request is ever sent whose sessionId header
\* is absent or empty.
C27_NoTokenNoRequest ==
  \A i \in Procs :
    /\ ZeroWithoutSession(authResp[i]) =>
         /\ pc[i] = "done" /\ how[i] = "returned"
         /\ result[i] = [t |-> "dict", d |-> {<<"error", "Authentication failed">>}]
         /\ Gets(i) = {} /\ Len(reqs[i]) = 1
    /\ \A n \in Gets(i) :
         /\ \E h \in reqs[i][n].headers : h[1] = "sessionId"
         /\ \A h \in reqs[i][n].headers :
              h[1] = "sessionId" => h[2] \notin {"", "<None>"}

\* get_employee has returned after the response {"errorCode": "0",
\* "sessionId": ""}
C27_Witness ==
  \E i \in Procs :
    /\ tool[i] = "get_employee" /\ pc[i] = "done"
    /\ authResp[i].value = [t |-> "dict", d |-> {<<"errorCode", "0">>, <<"sessionId", "">>}]
    /\ result[i] = [t |-> "dict", d |-> {<<"error", "Authentication failed">>}]

\* the fields of the body of an authentication POST
CredentialFields == {"username", "password", "peoId"}

\* C28: a relay called while a credential is set to the empty string does
\* what it does when the credential is absent: it returns {"error": "Missing
\* PrismHR credentials"} and issues no HTTP request; no authentication POST
\* carries an empty username, password or peoId, nor lacks one of them.
C28_EmptyIsMissing ==
  \A i \in Procs :
    /\ (Entered(i) /\ \E f \in {"username", "password", "peo_id"} : locals[i][f] = "")
         => /\ pc[i] = "done" /\ how[i] = "returned"
            /\ result[i] = [t |-> "dict", d |-> {<<"error", "Missing PrismHR credentials">>}]
            /\ reqs[i] = <<>>
            /\ authOut[i] = "none"
    /\ \A n \in Posts(i) : \A k \in CredentialFields :
         /\ \E m \in 1..Len(reqs[i][n].data) : reqs[i][n].data[m][1] = k
         /\ \A m \in 1..Len(reqs[i][n].data) :
              reqs[i][n].data[m][1] = k => reqs[i][n].data[m][2] \notin {"", "None"}

\* get_employee_list has returned with the PEO id and the password set and
\* the username set to the empty string
C28_Witness ==
  \E i \in Procs :
    /\ tool[i] = "get_employee_list" /\ pc[i] = "done" /\ how[i] = "returned"
    /\ locals[i].username = "" /\ locals[i].password = "s3cret"
    /\ locals[i].peo_id = "624*D"
    /\ result[i] = [t |-> "dict", d |-> {<<"error", "Missing PrismHR credentials">>}]
    /\ reqs[i] = <<>>

\* C29: a tool of the small server, called with the arguments and under the
\* configuration of a call of the full server's tool of the same name, issues
\* the same authentication request; given the same authentication response
\* it issues the same endpoint request, or none where the full server issues
\* none; and given the same responses throughout it ends the same way with
\* the same result.
C29_SmallEquivalent ==
  pc[2] # "idle" =>
    /\ pc[1] = "done"
    /\ tool[2] = "small." \o tool[1] /\ passed[2] = passed[1]
    /\ tool[1] \in {"get_employee_list", "get_employee", "test_connection"}
    /\ locals[2] = locals[1] /\ args[2] = args[1]
    /\ pc[2] = "auth" =>
         Len(reqs[2]) = 1 /\ Len(reqs[1]) >= 1 /\ reqs[2][1] = reqs[1][1]
    /\ (authResp[2] # NoResponse /\ authResp[2] = authResp[1]) =>
         /\ session_id[2] = session_id[1]
         /\ pc[2] = "endpoint" => reqs[2] = reqs[1]
    /\ (pc[2] = "done" /\ authResp[2] = authResp[1] /\ epResp[2] = epResp[1]) =>
         /\ reqs[2] = reqs[1]
         /\ how[2] = how[1]
         /\ result[2] = result[1]

\* both servers' get_employee have returned the employee the upstream sent,
\* after the same two requests
C29_Witness ==
  /\ tool[1] = "get_employee" /\ tool[2] = "small.get_employee"
  /\ pc[1] = "done" /\ pc[2] = "done"
  /\ passed[1]["options"] = "Person"
  /\ Len(reqs[1]) = 2 /\ reqs[2] = reqs[1]
  /\ result[1] = [t |-> "dict", d |-> {<<"employees", "[]">>}]
  /\ result[2] = result[1]

\* the credentials frame i read, as they are and as urlencode writes them
Secrets(i) ==
  LET read == {locals[i][f] : f \in {"username", "password", "peo_id"}} \ {"<None>", ""}
  IN read \cup {QuotePlus(c) : c \in read}
\* the strings in the query and in the headers of a request
InQuery(r) == {r.query[n][1] : n \in 1..Len(r.query)} \cup {r.query[n][2] : n \in 1..Len(r.query)}
InHeaders(r) == {h[1] : h \in r.headers} \cup {h[2] : h \in r.headers}
\* the paths the two servers' tools of this specification request
KnownPaths ==
  {"/services/rest/login/v1/createPeoSession", "/services/rest/employee/v1/getEmployeeList",
   "/services/rest/employee/v1/getEmployee"}

\* C30: the username, the password and the PEO id are sent in the body of
\* the authentication POST and nowhere else: the URL of every request is the
\* base URL followed by a fixed path, no query string and no header of any
\* request holds a credential, an endpoint request has no body, and no field
\* of a value a tool returns is a credential.
C30_CredentialsConfined ==
  \A i \in Procs :
    /\ \A n \in 1..Len(reqs[i]) :
         LET r == reqs[i][n]
         IN /\ r.url \in {locals[i].base_url \o path : path \in KnownPaths}
            /\ InQuery(r) \cap Secrets(i) = {}
            /\ InHeaders(r) \cap Secrets(i) = {}
            /\ IF r.method = "POST"
                 THEN /\ n = 1 /\ r.query = <<>>
                      /\ r.data = << <<"username", QuotePlus(locals[i].username)>>,
                                     <<"password", QuotePlus(locals[i].password)>>,
                                     <<"peoId", QuotePlus(locals[i].peo_id)>> >>
                 ELSE r.data = <<>>
    /\ locals[i].base_url \notin Secrets(i)
    /\ result[i].t = "dict" =>
         \A p \in result[i].d : p[1] \notin Secrets(i) /\ p[2] \notin Secrets(i)

\* test_connection has returned its success dict after a POST whose body
\* carried the three credentials
C30_Witness ==
  /\ tool[FullFrame] = "test_connection" /\ pc[FullFrame] = "done"
  /\ Len(reqs[FullFrame]) = 1
  /\ reqs[FullFrame][1].data =
       << <<"username", "wsuser">>, <<"password", "s3cret">>, <<"peoId", "624%2AD">> >>
  /\ <<"success", "<True>">> \in result[FullFrame].d
  /\ tool[SmallFrame] = "small.test_connection" /\ pc[SmallFrame] = "done"
====
